---- MODULE Spec2Model ----
(***************************************************************************)
(* State-machine model of tools/lib/bpf/libbpf.c: the object life cycle    *)
(* (open, map reuse, load, unload, close) over a small kernel descriptor   *)
(* table.  One bpf_object is held by the caller at a time.  Kernel calls   *)
(* (map create, program load, info query, open, dup3, close) succeed or    *)
(* fail nondeterministically; descriptors are allocated lowest-free.       *)
(* close(2) follows Linux: the descriptor is released even when close      *)
(* reports an error.                                                       *)
(***************************************************************************)
EXTENDS Integers, Sequences, FiniteSets, TLC

VARIABLES
    bpf_objects_list,  \* the process-wide list of open objects (at most one here)
    fdtab,             \* kernel descriptor table of the process
    pc,                \* position inside bpf_object__load ("idle" between calls)
    li,                \* loop index of the running phase of bpf_object__load
    inst,              \* instance index of the running bpf_program__load
    lerr,              \* err of the running bpf_object__load
    ret,               \* what the last library call returned
    log,               \* kernel requests and patches made by the last library call
    pre_fds,           \* map descriptors as they were when bpf_object__load was entered
    load_called        \* bpf_object__load has been called on the current object

vars == <<bpf_objects_list, fdtab, pc, li, inst, lerr, ret, log, pre_fds, load_called>>

(* ------------------------------ bounds --------------------------------- *)
MaxFd == 3        \* descriptors 0 .. MaxFd-1 exist in the process
MaxMaps == 2      \* map symbols in an input object
MaxInst == 2      \* instances a preprocessor may declare
MaxUserFds == 1   \* descriptors the caller holds on pinned maps at a time
MaxLeaks == 1     \* descriptors the process can lose before it is restarted
MaxObjs == 2      \* objects open at a time when the list is looked at
MaxListOps == 5   \* opens and closes in a run that looks at the list

(* ------------------------- program constants --------------------------- *)
BPF_PSEUDO_MAP_FD == 1
BPF_PSEUDO_CALL == 1
BPF_MAXINSNS == 4096
InsnSize == 8
MapDefSz == 20

Fds == 0 .. (MaxFd - 1)

(* --------------------------- C strings --------------------------------- *)
\* a copy that does not stop at the NUL
strdup_whole(s) == s

\* strdup(s): the bytes of s before its first NUL
strdup(s) ==
    LET z == CHOOSE k \in 1 .. Len(s) :
                 s[k] = 0 /\ \A j \in 1 .. (k - 1) : s[j] # 0
    IN  SubSeq(s, 1, z - 1)

\* a C string as the kernel stores it in a name field: NUL terminated
cname(s) == s \o <<0>>

(* ------------------------ kernel descriptor table ---------------------- *)
NoInfo ==
    [name |-> <<0>>, type |-> 0, key_size |-> 0, value_size |-> 0,
     max_entries |-> 0, map_flags |-> 0,
     btf_key_type_id |-> 0, btf_value_type_id |-> 0]

FreeFd == [kind |-> "free", origin |-> "none", info |-> NoInfo]

HasFree(tab) == \E n \in Fds : tab[n].kind = "free"

LowestFree(tab) ==
    CHOOSE n \in Fds :
        tab[n].kind = "free" /\ \A m \in Fds : tab[m].kind = "free" => n <= m

\* close(fd): the descriptor is released whether or not an error is reported
sys_close(tab, fd) ==
    IF fd \in Fds THEN [tab EXCEPT ![fd] = FreeFd] ELSE tab

\* zclose(fd): close when fd >= 0, then fd = -1; yields close's result
zclose(tab, fd, cerr) ==
    [tab |-> IF fd >= 0 THEN sys_close(tab, fd) ELSE tab,
     fd  |-> -1,
     err |-> IF fd >= 0 THEN cerr ELSE 0]

\* maps pinned in the kernel that the caller can get a descriptor for
PinnedInfos ==
    { [name |-> <<112, 49, 0, 120>>, type |-> 5, key_size |-> 8,
       value_size |-> 16, max_entries |-> 64, map_flags |-> 1,
       btf_key_type_id |-> 7, btf_value_type_id |-> 9] }

(* ------------------------------ objects -------------------------------- *)
Insn(code, src, imm) == [code |-> code, src_reg |-> src, imm |-> imm]

LD64 == Insn("BPF_LD|BPF_IMM|BPF_DW", 0, 0)
LDHI == Insn("0", 0, 0)
CALL == Insn("BPF_JMP|BPF_CALL", BPF_PSEUDO_CALL, -1)
EXIT == Insn("BPF_JMP|BPF_EXIT", 0, 0)

MapsShndx == 3
TextShndx == 4

Sec(name, idx, sym, insns) ==
    [section_name |-> name, idx |-> idx, sym |-> sym, insns |-> insns]

Rel(off, shndx, value) ==
    [r_offset |-> off, st_shndx |-> shndx, st_value |-> value]

\* program sections and relocation sections of the input objects:
\* one program loading a map address
L_socket ==
    [progs |-> << Sec("socket", 5, "prog", <<LD64, LDHI, EXIT>>) >>,
     rels  |-> << [sec |-> 5, ents |-> << Rel(0, MapsShndx, 0) >>] >>]

\* .text with two functions, called twice from a kprobe program that loads
\* the address of the last map between the calls; the second call names the
\* second function by its own symbol
L_call ==
    [progs |-> << Sec(".text", TextShndx, "", <<EXIT, EXIT>>),
                  Sec("kprobe/foo", 5, "foo", <<CALL, LD64, LDHI, CALL, EXIT>>) >>,
     rels  |-> << [sec |-> 5,
                   ents |-> << Rel(0, TextShndx, 0),
                               Rel(InsnSize, MapsShndx, (MaxMaps - 1) * MapDefSz),
                               Rel(3 * InsnSize, TextShndx, InsnSize) >>] >>]

\* .text calling into itself
L_textcall ==
    [progs |-> << Sec(".text", TextShndx, "", <<CALL, EXIT>>) >>,
     rels  |-> << [sec |-> TextShndx, ents |-> << Rel(0, TextShndx, 0) >>] >>]

\* .text without calls next to a second program
L_plain ==
    [progs |-> << Sec(".text", TextShndx, "", <<EXIT>>),
                  Sec("socket", 5, "prog", <<EXIT>>) >>,
     rels  |-> << >>]

\* a program before .text and a caller of .text after it, no maps
L_order ==
    [progs |-> << Sec("socket", 5, "prog", <<EXIT>>),
                  Sec(".text", TextShndx, "", <<EXIT>>),
                  Sec("kprobe/foo", 6, "foo", <<CALL, EXIT>>) >>,
     rels  |-> << [sec |-> 6, ents |-> << Rel(0, TextShndx, 0) >>] >>]

\* the definition records and names found in the maps section
ElfMapDef(k) ==
    IF k = 1
    THEN [type |-> 1, key_size |-> 4, value_size |-> 8,
          max_entries |-> 16, map_flags |-> 0]
    ELSE [type |-> 2, key_size |-> 4, value_size |-> 4,
          max_entries |-> k, map_flags |-> 0]

ElfMapName(k) == <<109, 48 + k>>

\* a 32-bit field as it lies in the section, and as it is read back
le32(v) ==
    << v % 256, (v \div 256) % 256, (v \div 65536) % 256,
       (v \div 16777216) % 256 >>

u32(b, off) ==
    b[off + 1] + 256 * b[off + 2] + 65536 * b[off + 3] + 16777216 * b[off + 4]

\* struct bpf_map_def in memory, and the record read from those bytes
ElfMapBytes(k) ==
    le32(ElfMapDef(k).type) \o le32(ElfMapDef(k).key_size)
        \o le32(ElfMapDef(k).value_size) \o le32(ElfMapDef(k).max_entries)
        \o le32(ElfMapDef(k).map_flags)

bpf_map_def(b) ==
    [type |-> u32(b, 0), key_size |-> u32(b, 4), value_size |-> u32(b, 8),
     max_entries |-> u32(b, 12), map_flags |-> u32(b, 16)]

\* the bytes of a section made of the given pieces
RECURSIVE Flatten(_)
Flatten(pieces) ==
    IF pieces = << >> THEN << >>
    ELSE Head(pieces) \o Flatten(Tail(pieces))

MapSym(k) == [name |-> ElfMapName(k), st_value |-> (k - 1) * MapDefSz]

\* an object file: n map symbols over a maps section of n definitions, the
\* symbol table linked to the string table in section 1 of Shnum sections
Shnum == 8

\* a symbol of the symbol table; name is << >> when the string table does
\* not hold it
Sym(name, shndx, bind) == [name |-> name, st_shndx |-> shndx, bind |-> bind]

\* one global symbol for every program section that Sec gives a symbol
RECURSIVE SymsOf(_)
SymsOf(progs) ==
    IF progs = << >> THEN << >>
    ELSE (IF Head(progs).sym = "" THEN << >>
          ELSE << Sym(<< Head(progs).sym >>, Head(progs).idx, "STB_GLOBAL") >>)
         \o SymsOf(Tail(progs))

Elf(n, b, k, l) ==
    [btf |-> b, kern_version |-> k, progs |-> l.progs, rels |-> l.rels,
     symtab |-> SymsOf(l.progs),
     shnum |-> Shnum, strtabidx |-> 1,
     has_maps |-> n > 0,
     map_syms |-> [j \in 1 .. n |-> MapSym(j)],
     maps_data |-> Flatten([j \in 1 .. n |-> ElfMapBytes(j)])]

\* the input objects drawn by open; the last one fails relocation collection
ElfInputs ==
    { Elf(1, FALSE, 1, L_socket),
      Elf(MaxMaps, TRUE, 1, L_call),
      Elf(1, TRUE, 1, L_textcall),
      Elf(1, FALSE, 0, L_plain),
      Elf(0, FALSE, 1, L_order),
      Elf(0, FALSE, 1, L_socket) }

\* bpf_program__init: a program as it is appended by the section sweep
bpf_program__init(sec) ==
    [idx |-> sec.idx, name |-> << >>, section_name |-> sec.section_name,
     insns |-> sec.insns, insns_cnt |-> Len(sec.insns), main_prog_cnt |-> 0,
     type |-> "KPROBE", expected_attach_type |-> 0,
     reloc_desc |-> << >>, nr_reloc |-> 0,
     instances |-> [nr |-> -1, fds |-> << >>],
     preprocessor |-> FALSE]

\* compare_bpf_map, on the offsets of two maps: the difference as an int
\* (the offsets of the objects here are far below 2^31)
compare_bpf_map(a, b) == a - b

\* the arrangements qsort may leave n maps in: order[i] is the symbol whose
\* map ends up at position i
Orders(elf) ==
    LET n == Len(elf.map_syms)
    IN  { f \in [1 .. n -> 1 .. n] :
            /\ \A i, j \in 1 .. n : i # j => f[i] # f[j]
            /\ \A i, j \in 1 .. n :
                  i < j => compare_bpf_map(elf.map_syms[f[i]].st_value,
                                           elf.map_syms[f[j]].st_value) <= 0 }

Zeros(n) == [i \in 1 .. n |-> 0]

\* a check that lets every definition through
extra_nonzero_never(data, st, sz) == FALSE

\* some byte of the definition at st beyond sizeof(struct bpf_map_def) is set
extra_nonzero(data, st, sz) ==
    \E i \in (st + MapDefSz + 1) .. (st + sz) : data[i] # 0

\* the bytes that end up in map->def: memcpy over the zeros of calloc
def_bytes(data, st, sz) ==
    IF sz <= MapDefSz
    THEN SubSeq(data, st + 1, st + sz) \o Zeros(MapDefSz - sz)
    ELSE SubSeq(data, st + 1, st + MapDefSz)

\* bpf_object__init_maps: one map per symbol of the maps section, then qsort
bpf_object__init_maps(elf, order) ==
    LET nr_maps == Len(elf.map_syms)
        d_size == Len(elf.maps_data)
        map_def_sz == d_size \div nr_maps
        map(j) == [fd |-> -1, name |-> elf.map_syms[j].name,
                   offset |-> elf.map_syms[j].st_value,
                   def |-> bpf_map_def(def_bytes(elf.maps_data,
                                                 elf.map_syms[j].st_value,
                                                 map_def_sz)),
                   btf_key_type_id |-> 0, btf_value_type_id |-> 0]
    IN  IF nr_maps = 0 THEN [err |-> "0", maps |-> << >>]
        ELSE IF d_size = 0 \/ d_size % nr_maps # 0
        THEN [err |-> "-EINVAL", maps |-> << >>]
        ELSE IF \E j \in 1 .. nr_maps :
                   \/ elf.map_syms[j].st_value + map_def_sz > d_size
                   \/ /\ map_def_sz > MapDefSz
                      /\ extra_nonzero(elf.maps_data, elf.map_syms[j].st_value,
                                       map_def_sz)
        THEN [err |-> "-EINVAL", maps |-> << >>]
        ELSE [err |-> "0", maps |-> [i \in 1 .. nr_maps |-> map(order[i])]]

\* the name bpf_object__init_prog_names finds for the program of section
\* idx: that of the first global symbol of the section, else .text for the
\* .text section; << >> stands for NULL
prog_name(symtab, idx, text_shndx) ==
    LET cands == { si \in 1 .. Len(symtab) :
                     symtab[si].st_shndx = idx
                     /\ symtab[si].bind = "STB_GLOBAL" }
        first == CHOOSE si \in cands : \A sj \in cands : si <= sj
    IN  IF cands # {}
        THEN [err |-> IF symtab[first].name = << >> THEN "-LIBELF" ELSE "0",
              name |-> symtab[first].name]
        ELSE IF idx = text_shndx THEN [err |-> "0", name |-> << ".text" >>]
        ELSE [err |-> "-EINVAL", name |-> << >>]

\* bpf_object__init_prog_names: the programs in order, the first failure ends it
bpf_object__init_prog_names(progs, elf, text_shndx) ==
    LET n(p) == prog_name(elf.symtab, progs[p].idx, text_shndx)
        bad == { p \in 1 .. Len(progs) : n(p).err # "0" }
    IN  [err |-> IF bad = {} THEN "0"
                 ELSE n(CHOOSE p \in bad : \A q \in bad : p <= q).err,
         progs |-> [p \in 1 .. Len(progs) |->
                      [progs[p] EXCEPT !.name = n(p).name]]]

\* bpf_object__find_prog_by_idx: position of the program of section idx, 0 if none
bpf_object__find_prog_by_idx(progs, idx) ==
    IF \E p \in 1 .. Len(progs) : progs[p].idx = idx
    THEN CHOOSE p \in 1 .. Len(progs) :
             progs[p].idx = idx /\ \A q \in 1 .. (p - 1) : progs[q].idx # idx
    ELSE 0

\* position (0-based, as in the code) of the map at byte offset off, nr_maps if none
find_map_idx(maps, off) ==
    IF \E m \in 1 .. Len(maps) : maps[m].offset = off
    THEN (CHOOSE m \in 1 .. Len(maps) :
              maps[m].offset = off /\ \A q \in 1 .. (m - 1) : maps[q].offset # off) - 1
    ELSE Len(maps)

\* what a read of insns[insn_idx] past the end of the buffer may find
OobInsns == {LD64, CALL, EXIT}

\* one entry of bpf_program__collect_reloc; the instruction is read without
\* a look at insns_cnt, oob is what lies behind the buffer; val is the union
\* of map_idx and text_off, st_value and st_shndx remember the symbol the
\* entry was built from
collect_entry(prog, rel, maps, maps_shndx, text_shndx, oob) ==
    LET insn_idx == rel.r_offset \div InsnSize
        insn == IF insn_idx < Len(prog.insns) THEN prog.insns[insn_idx + 1]
                ELSE oob
        map_idx == find_map_idx(maps, rel.st_value)
    IN  IF rel.st_shndx # maps_shndx /\ rel.st_shndx # text_shndx
        THEN [err |-> "-RELOC", call |-> FALSE, desc |-> << >>]
        ELSE IF insn.code = "BPF_JMP|BPF_CALL"
        THEN IF insn.src_reg # BPF_PSEUDO_CALL
             THEN [err |-> "-RELOC", call |-> FALSE, desc |-> << >>]
             ELSE [err |-> "0", call |-> TRUE,
                   desc |-> << [type |-> "RELO_CALL", insn_idx |-> insn_idx,
                                val |-> rel.st_value,
                                st_value |-> rel.st_value,
                                st_shndx |-> rel.st_shndx] >>]
        ELSE IF insn.code # "BPF_LD|BPF_IMM|BPF_DW"
        THEN [err |-> "-RELOC", call |-> FALSE, desc |-> << >>]
        ELSE IF map_idx >= Len(maps)
        THEN [err |-> "-RELOC", call |-> FALSE, desc |-> << >>]
        ELSE [err |-> "0", call |-> FALSE,
              desc |-> << [type |-> "RELO_LD64", insn_idx |-> insn_idx,
                           val |-> map_idx,
                           st_value |-> rel.st_value,
                           st_shndx |-> rel.st_shndx] >>]

RECURSIVE bpf_program__collect_reloc(_, _, _, _, _, _, _)
bpf_program__collect_reloc(prog, ents, k, maps, maps_shndx, text_shndx, oob) ==
    IF k > Len(ents)
    THEN [err |-> "0", call |-> FALSE, descs |-> << >>]
    ELSE LET e == collect_entry(prog, ents[k], maps, maps_shndx, text_shndx,
                                oob)
             r == bpf_program__collect_reloc(prog, ents, k + 1, maps,
                                             maps_shndx, text_shndx, oob)
         IN  IF e.err # "0"
             THEN [err |-> e.err, call |-> FALSE, descs |-> << >>]
             ELSE [err |-> r.err, call |-> e.call \/ r.call,
                   descs |-> e.desc \o r.descs]

RECURSIVE bpf_object__collect_reloc(_, _, _, _)
bpf_object__collect_reloc(o, rels, k, oob) ==
    IF k > Len(rels) THEN [err |-> "0", obj |-> o]
    ELSE LET p == bpf_object__find_prog_by_idx(o.programs, rels[k].sec)
         IN  IF p = 0 THEN [err |-> "-RELOC", obj |-> o]
             ELSE LET c == bpf_program__collect_reloc(o.programs[p],
                               rels[k].ents, 1, o.maps, o.maps_shndx,
                               o.text_shndx, oob)
                      o2 == [o EXCEPT
                               !.programs[p].reloc_desc = c.descs,
                               !.programs[p].nr_reloc = Len(c.descs),
                               !.has_pseudo_calls = @ \/ c.call]
                  IN  IF c.err # "0" THEN [err |-> c.err, obj |-> o]
                      ELSE bpf_object__collect_reloc(o2, rels, k + 1, oob)

\* the kinds of program bpf_object__open_xattr may be asked for; OTHER is a
\* value the switch does not name
ProgKinds ==
    {"UNSPEC", "SOCKET_FILTER", "KPROBE", "SCHED_CLS", "SCHED_ACT",
     "TRACEPOINT", "XDP", "PERF_EVENT", "CGROUP_SKB", "CGROUP_SOCK", "LWT_IN",
     "LWT_OUT", "LWT_XMIT", "SOCK_OPS", "SK_SKB", "CGROUP_DEVICE", "SK_MSG",
     "RAW_TRACEPOINT", "CGROUP_SOCK_ADDR", "LWT_SEG6LOCAL", "LIRC_MODE2",
     "OTHER"}

\* a switch without the case of LIRC_MODE2
bpf_prog_type__needs_kver_old(type) ==
    type \notin {"SOCKET_FILTER", "SCHED_CLS", "SCHED_ACT", "XDP",
                 "CGROUP_SKB", "CGROUP_SOCK", "LWT_IN", "LWT_OUT", "LWT_XMIT",
                 "LWT_SEG6LOCAL", "SOCK_OPS", "SK_SKB", "CGROUP_DEVICE",
                 "SK_MSG", "CGROUP_SOCK_ADDR"}

\* bpf_prog_type__needs_kver: the cases that return false, true otherwise
bpf_prog_type__needs_kver(type) ==
    type \notin {"SOCKET_FILTER", "SCHED_CLS", "SCHED_ACT", "XDP",
                 "CGROUP_SKB", "CGROUP_SOCK", "LWT_IN", "LWT_OUT", "LWT_XMIT",
                 "LWT_SEG6LOCAL", "SOCK_OPS", "SK_SKB", "CGROUP_DEVICE",
                 "SK_MSG", "CGROUP_SOCK_ADDR", "LIRC_MODE2"}

\* the calls that end in __bpf_object__open, and the needs_kver each passes
OpenCalls ==
    [api : {"bpf_object__open", "bpf_object__open_buffer"},
     prog_type : {"UNSPEC"}]
        \cup [api : {"bpf_object__open_xattr"}, prog_type : ProgKinds]

needs_kver_of(call) ==
    IF call.api = "bpf_object__open_buffer" THEN TRUE
    ELSE bpf_prog_type__needs_kver(call.prog_type)

\* bpf_object__validate: a required kernel version must be declared
bpf_object__validate(o, needs_kver) ==
    IF needs_kver /\ o.kern_version = 0 THEN "-KVERSION" ELSE "0"

\* bpf_object__new, the section sweep of bpf_object__elf_collect and what
\* follows it: the test of the string table index against the number idx of
\* sections the sweep went through, the maps, the program names
bpf_object__elf_collect(elf, order) ==
    LET text_shndx == IF \E p \in 1 .. Len(elf.progs) :
                            elf.progs[p].section_name = ".text"
                      THEN TextShndx ELSE 0
        maps_shndx == IF elf.has_maps THEN MapsShndx ELSE -1
        idx == elf.shnum - 1
        progs == [p \in 1 .. Len(elf.progs) |-> bpf_program__init(elf.progs[p])]
        m == IF maps_shndx >= 0 THEN bpf_object__init_maps(elf, order)
             ELSE [err |-> "0", maps |-> << >>]
        names == bpf_object__init_prog_names(progs, elf, text_shndx)
        o == [loaded |-> FALSE, has_pseudo_calls |-> FALSE, btf |-> elf.btf,
              kern_version |-> elf.kern_version,
              maps_shndx |-> maps_shndx,
              text_shndx |-> text_shndx,
              maps |-> m.maps,
              programs |-> names.progs]
    IN  IF elf.strtabidx = 0 \/ elf.strtabidx >= idx
        THEN [err |-> "FORMAT", stage |-> "strtab", obj |-> o]
        ELSE IF m.err # "0"
        THEN [err |-> m.err, stage |-> "maps", obj |-> o]
        ELSE IF names.err # "0"
        THEN [err |-> names.err, stage |-> "names", obj |-> o]
        ELSE [err |-> "0", stage |-> "none", obj |-> o]

\* the failures of open that do not depend on the sections: elf_version,
\* bpf_object__new, bpf_object__elf_init, bpf_object__check_endianness, and
\* a section the sweep cannot read
OpenFails ==
    { [stage |-> "none", err |-> "0"],
      [stage |-> "elf_version", err |-> "-LIBELF"],
      [stage |-> "new", err |-> "-ENOMEM"],
      [stage |-> "elf_init", err |-> "-ENOENT"],
      [stage |-> "elf_init", err |-> "-LIBELF"],
      [stage |-> "elf_init", err |-> "-FORMAT"],
      [stage |-> "endian", err |-> "-ENDIAN"],
      [stage |-> "sweep", err |-> "-FORMAT"] }

\* __bpf_object__open: the parsed object, or the error of the first failing
\* stage; stage names it
__bpf_object__open(elf, needs_kver, fail, order, oob) ==
    LET e == bpf_object__elf_collect(elf, order)
        c == bpf_object__collect_reloc(e.obj, elf.rels, 1, oob)
        v == bpf_object__validate(c.obj, needs_kver)
    IN  IF fail.stage # "none"
        THEN [err |-> fail.err, stage |-> fail.stage, obj |-> e.obj]
        ELSE IF e.err # "0" THEN e
        ELSE IF c.err # "0"
        THEN [err |-> c.err, stage |-> "reloc", obj |-> e.obj]
        ELSE [err |-> v, stage |-> IF v = "0" THEN "none" ELSE "validate",
              obj |-> c.obj]

\* the value of an error name as open returns it
errno_value(err) ==
    CASE err = "0" -> 0
      [] err = "-ENOENT" -> -2
      [] err = "-ENOMEM" -> -12
      [] err = "-EINVAL" -> -22
      [] err = "-LIBELF" -> -4000
      [] err = "-FORMAT" -> -4001
      [] err = "FORMAT" -> 4001
      [] err = "-KVERSION" -> -4002
      [] err = "-ENDIAN" -> -4003
      [] err = "-RELOC" -> -4005

\* pointers are kept as the long they convert to; ObjPtr is where calloc
\* put the object
MAX_ERRNO == 4095
ObjPtr == 65536

ERR_PTR(error) == error

IS_ERR(ptr) == ptr >= -MAX_ERRNO /\ ptr < 0

\* libbpf_get_error
libbpf_get_error(ptr) == IF IS_ERR(ptr) THEN ptr ELSE 0

(* ----------------------- state between the calls ----------------------- *)
HasObj == Len(bpf_objects_list) = 1
Obj == bpf_objects_list[1]

Ret(op, err, arg) == [op |-> op, err |-> err, arg |-> arg]

\* ret after a call whose result is not recorded
NoRet == Ret("none", "0", << >>)

NoErr == [err |-> "0", phase |-> "none", k |-> 0]

Init ==
    /\ bpf_objects_list = << >>
    /\ fdtab = [n \in Fds |-> FreeFd]
    /\ pc = "idle"
    /\ li = 0
    /\ inst = 0
    /\ lerr = NoErr
    /\ ret = NoRet
    /\ log = << >>
    /\ pre_fds = << >>
    /\ load_called = FALSE

\* descriptors held in the map fd fields and program instance slots of o
MapFds(o) == { o.maps[m].fd : m \in 1 .. Len(o.maps) } \ {-1}

InstFds(prog) ==
    { prog.instances.fds[k] : k \in 1 .. Len(prog.instances.fds) } \ {-1}

ProgFds(o) == UNION { InstFds(o.programs[p]) : p \in 1 .. Len(o.programs) }

close_all(tab, S) == [n \in Fds |-> IF n \in S THEN FreeFd ELSE tab[n]]

\* an unload that leaves the instance table in place
bpf_program__unload_keep(prog) == prog

\* bpf_program__unload: close every instance descriptor, nr = -1, fds freed
bpf_program__unload(prog) ==
    [prog EXCEPT !.instances = [nr |-> -1, fds |-> << >>]]

\* an unload that closes no instance descriptor
bpf_program__unload_fds_none(prog) == {}

\* the descriptors bpf_program__unload closes
bpf_program__unload_fds(prog) ==
    IF prog.instances.nr > 0 THEN InstFds(prog) ELSE {}

\* bpf_object__unload: zclose every map descriptor, then unload every program
bpf_object__unload(o, tab) ==
    [obj |-> [o EXCEPT
                !.maps = [m \in 1 .. Len(o.maps) |-> [o.maps[m] EXCEPT !.fd = -1]],
                !.programs = [p \in 1 .. Len(o.programs) |->
                                 bpf_program__unload(o.programs[p])]],
     tab |-> close_all(tab,
                 MapFds(o) \cup
                 UNION { bpf_program__unload_fds(o.programs[p]) :
                            p \in 1 .. Len(o.programs) })]

(* ------------------------------- open ---------------------------------- *)
\* one of the open calls; besides its result ret keeps the stage that
\* failed, the pointer returned, the input, the call and what the system did
Open(elf, call, fail, order, oob) ==
    /\ pc = "idle"
    /\ ~HasObj
    /\ LET r == __bpf_object__open(elf, needs_kver_of(call), fail, order, oob)
           ptr == IF r.err = "0" THEN ObjPtr ELSE ERR_PTR(errno_value(r.err))
       IN  /\ bpf_objects_list' = IF r.err = "0" THEN << r.obj >> ELSE << >>
           /\ ret' = Ret("open", r.err,
                      << r.stage, ptr, elf, call, fail, order, oob >>)
    /\ log' = << >>
    /\ pre_fds' = << >>
    /\ load_called' = FALSE
    /\ UNCHANGED <<fdtab, pc, li, inst, lerr>>

(* ------------------------------- close --------------------------------- *)
\* bpf_object__close: unload, free maps and programs, leave the list
Close ==
    /\ pc = "idle"
    /\ HasObj
    /\ LET u == bpf_object__unload(Obj, fdtab)
       IN  fdtab' = u.tab
    /\ bpf_objects_list' = << >>
    /\ ret' = Ret("close", "0", << MapFds(Obj), ProgFds(Obj) >>)
    /\ log' = << >>
    /\ pre_fds' = << >>
    /\ load_called' = FALSE
    /\ UNCHANGED <<pc, li, inst, lerr>>

\* bpf_object__unload called by the user
Unload ==
    /\ pc = "idle"
    /\ HasObj
    /\ LET u == bpf_object__unload(Obj, fdtab)
       IN  /\ fdtab' = u.tab
           /\ bpf_objects_list' = << u.obj >>
    /\ ret' = NoRet
    /\ log' = << >>
    /\ pre_fds' = << >>
    /\ UNCHANGED <<pc, li, inst, lerr, load_called>>

(* ------------------- user mutation of an open object ------------------- *)
\* the programs bpf_program__next hands to the user are those that are not
\* function storage; the setters are called on them, before load
\* a test that takes every program of an object with calls for storage
bpf_program__is_function_storage_or(prog, o) ==
    prog.idx = o.text_shndx \/ o.has_pseudo_calls

\* a test that finds no function storage
bpf_program__is_function_storage_never(prog, o) == FALSE

\* bpf_program__is_function_storage
bpf_program__is_function_storage(prog, o) ==
    prog.idx = o.text_shndx /\ o.has_pseudo_calls

ProgTypes == {"KPROBE", "SOCKET_FILTER"}

\* bpf_program__set_type
SetType(p, t) ==
    /\ pc = "idle"
    /\ HasObj
    /\ p \in 1 .. Len(Obj.programs)
    /\ ~Obj.loaded
    /\ ~bpf_program__is_function_storage(Obj.programs[p], Obj)
    /\ bpf_objects_list' = << [Obj EXCEPT !.programs[p].type = t] >>
    /\ ret' = NoRet
    /\ log' = << >>
    /\ pre_fds' = << >>
    /\ UNCHANGED <<fdtab, pc, li, inst, lerr, load_called>>

\* bpf_program__set_prep
bpf_program__set_prep(prog, nr_instances) ==
    IF nr_instances <= 0 THEN [err |-> "-EINVAL", prog |-> prog]
    ELSE IF prog.instances.nr > 0 \/ prog.instances.fds # << >>
    THEN [err |-> "-EINVAL", prog |-> prog]
    ELSE [err |-> "0",
          prog |-> [prog EXCEPT
                      !.instances = [nr |-> nr_instances,
                                     fds |-> [k \in 1 .. nr_instances |-> -1]],
                      !.preprocessor = TRUE]]

SetPrep(p, n) ==
    /\ pc = "idle"
    /\ HasObj
    /\ p \in 1 .. Len(Obj.programs)
    /\ ~Obj.loaded
    /\ ~bpf_program__is_function_storage(Obj.programs[p], Obj)
    /\ LET r == bpf_program__set_prep(Obj.programs[p], n)
       IN  /\ bpf_objects_list' = << [Obj EXCEPT !.programs[p] = r.prog] >>
           /\ ret' = NoRet
    /\ log' = << >>
    /\ pre_fds' = << >>
    /\ UNCHANGED <<fdtab, pc, li, inst, lerr, load_called>>

(* --------------- descriptors the caller holds on pinned maps ----------- *)
UserFds == { n \in Fds : fdtab[n].origin = "user" }

UserGet(info) ==
    /\ pc = "idle"
    /\ Cardinality(UserFds) < MaxUserFds
    /\ HasFree(fdtab)
    /\ fdtab' = [fdtab EXCEPT ![LowestFree(fdtab)] =
                     [kind |-> "map", origin |-> "user", info |-> info]]
    /\ ret' = NoRet
    /\ log' = << >>
    /\ pre_fds' = << >>
    /\ UNCHANGED <<bpf_objects_list, pc, li, inst, lerr, load_called>>

UserClose(fd) ==
    /\ pc = "idle"
    /\ fd \in UserFds
    /\ fdtab' = sys_close(fdtab, fd)
    /\ ret' = NoRet
    /\ log' = << >>
    /\ pre_fds' = << >>
    /\ UNCHANGED <<bpf_objects_list, pc, li, inst, lerr, load_called>>

(* ---------------------------- map reuse -------------------------------- *)
ReuseFails == {"none", "info", "strdup", "open", "dup3", "close"}

\* bpf_map__reuse_fd; fail names the step the environment makes fail
bpf_map__reuse_fd(map, tab, fd, fail) ==
    LET q_ok == fd \in Fds /\ tab[fd].kind = "map" /\ fail # "info"
        info == tab[fd].info
        new_name == strdup(info.name)
        open_ok == HasFree(tab) /\ fail # "open"
        new_fd == LowestFree(tab)
        tab1 == [tab EXCEPT ![new_fd] =
                    [kind |-> "file", origin |-> "placeholder", info |-> NoInfo]]
        tab2 == [tab1 EXCEPT ![new_fd] =
                    [kind |-> "map", origin |-> "dup", info |-> info]]
        z == zclose(tab2, map.fd, IF fail = "close" THEN -1 ELSE 0)
    IN  IF ~q_ok THEN [err |-> "-1", map |-> map, tab |-> tab]
        ELSE IF fail = "strdup" THEN [err |-> "-errno", map |-> map, tab |-> tab]
        ELSE IF ~open_ok THEN [err |-> "-errno", map |-> map, tab |-> tab]
        ELSE IF fail = "dup3"
        THEN \* new_fd = -1, so close(new_fd) closes nothing
             [err |-> "-errno", map |-> map, tab |-> tab1]
        ELSE IF z.err # 0
        THEN [err |-> "-errno", map |-> [map EXCEPT !.fd = z.fd],
              tab |-> sys_close(z.tab, new_fd)]
        ELSE [err |-> "0",
              map |-> [map EXCEPT
                         !.fd = new_fd,
                         !.name = new_name,
                         !.def = [type |-> info.type,
                                  key_size |-> info.key_size,
                                  value_size |-> info.value_size,
                                  max_entries |-> info.max_entries,
                                  map_flags |-> info.map_flags],
                         !.btf_key_type_id = info.btf_key_type_id,
                         !.btf_value_type_id = info.btf_value_type_id],
              tab |-> z.tab]

\* descriptors that are open but that nobody holds any more
Leaked == { n \in Fds : fdtab[n].origin = "placeholder" }

\* between open and load the caller passes a descriptor it holds on a pinned
\* map, the map's own descriptor, or a descriptor that is not open
ReuseFd(m, fd, fail) ==
    /\ pc = "idle"
    /\ HasObj
    /\ ~Obj.loaded
    /\ m \in 1 .. Len(Obj.maps)
    /\ \/ fd \in UserFds
       \/ fd = Obj.maps[m].fd
       \/ fdtab[fd].kind = "free" /\ fd = LowestFree(fdtab) /\ fail = "none"
    /\ fail = "close" => Obj.maps[m].fd >= 0
    /\ fail = "dup3" => Cardinality(Leaked) < MaxLeaks
    /\ LET r == bpf_map__reuse_fd(Obj.maps[m], fdtab, fd, fail)
       IN  /\ bpf_objects_list' = << [Obj EXCEPT !.maps[m] = r.map] >>
           /\ fdtab' = r.tab
           /\ ret' = Ret("reuse_fd", r.err,
                         << m, fd, fdtab[fd].info, Obj.maps[m] >>)
    /\ log' = << >>
    /\ pre_fds' = << >>
    /\ UNCHANGED <<pc, li, inst, lerr, load_called>>

\* the accessors
bpf_map__fd(map) == map.fd
bpf_map__def(map) == map.def
bpf_map__name(map) == map.name

(* ------------------------------- load ---------------------------------- *)
Ev(ev, idx, req, res) == [ev |-> ev, idx |-> idx, req |-> req, res |-> res]

\* the descriptor of the object's type metadata; it lives outside the table
btf__fd == MaxFd

\* what bpf_map_find_btf_info can find for a map: key and value type ids
BtfIds == { [key |-> 3, value |-> 4] }

\* a guard that lets every call through
already_loaded_never(o) == FALSE

\* the guard of bpf_object__load against a second call
already_loaded(o) == o.loaded

\* the macro with its test left out
CHECK_ERR_ignore(err, out, next) == next

\* CHECK_ERR(action, err, out): go to out when the action failed
CHECK_ERR(err, out, next) == IF err # "0" THEN out ELSE next

\* bpf_object__load up to the first phase: refuse a second load, set loaded
LoadEnter ==
    /\ pc = "idle"
    /\ HasObj
    /\ IF already_loaded(Obj)
       THEN /\ ret' = Ret("load", "-EINVAL", << "guard" >>)
            /\ pre_fds' = << >>
            /\ UNCHANGED <<bpf_objects_list, pc, li, inst, lerr>>
       ELSE /\ bpf_objects_list' = << [Obj EXCEPT !.loaded = TRUE] >>
            /\ pc' = "create_maps"
            /\ li' = 1
            /\ lerr' = NoErr
            /\ pre_fds' = [m \in 1 .. Len(Obj.maps) |-> Obj.maps[m].fd]
            /\ ret' = Ret("load", "running", << >>)
    /\ log' = << >>
    /\ load_called' = TRUE
    /\ UNCHANGED <<fdtab, inst>>

\* bpf_create_map_xattr: a new map descriptor, or -1
bpf_create_map_xattr(tab, create_attr, ok) ==
    IF ok /\ HasFree(tab)
    THEN [fd |-> LowestFree(tab),
          tab |-> [tab EXCEPT ![LowestFree(tab)] =
                     [kind |-> "map", origin |-> "create",
                      info |-> [name |-> cname(create_attr.name),
                                type |-> create_attr.map_type,
                                key_size |-> create_attr.key_size,
                                value_size |-> create_attr.value_size,
                                max_entries |-> create_attr.max_entries,
                                map_flags |-> create_attr.map_flags,
                                btf_key_type_id |-> create_attr.btf_key_type_id,
                                btf_value_type_id |-> create_attr.btf_value_type_id]]]]
    ELSE [fd |-> -1, tab |-> tab]

\* a loop that creates preset maps too
create_skip_never(map) == FALSE

\* a map that already holds a descriptor is skipped
create_skip(map) == map.fd >= 0

\* a retry after every failed request
create_retry_any(fd, create_attr) == fd < 0

\* the request is repeated when it failed and carried type ids
create_retry(fd, create_attr) == fd < 0 /\ create_attr.btf_key_type_id # 0

\* a failure path that closes nothing
prior_fds_none(o, i) == {}

\* the descriptors of the maps before map i, closed when map i fails
prior_fds(o, i) == { o.maps[j].fd : j \in 1 .. (i - 1) } \ {-1}

\* one iteration of the loop of bpf_object__create_maps, on map i (1-based):
\* found is the result of bpf_map_find_btf_info (<< >> when it fails),
\* ok1 and ok2 are the kernel's answers to the first and second request
create_map(o, tab, i, found, ok1, ok2) ==
    LET map == o.maps[i]
        def == map.def
        has_btf == o.btf /\ found # << >>
        map1 == IF has_btf
                THEN [map EXCEPT !.btf_key_type_id = found[1].key,
                                 !.btf_value_type_id = found[1].value]
                ELSE map
        attr1 == [name |-> map.name, map_type |-> def.type,
                  map_flags |-> def.map_flags, key_size |-> def.key_size,
                  value_size |-> def.value_size,
                  max_entries |-> def.max_entries,
                  btf_fd |-> IF has_btf THEN btf__fd ELSE 0,
                  btf_key_type_id |-> IF has_btf THEN map1.btf_key_type_id ELSE 0,
                  btf_value_type_id |-> IF has_btf THEN map1.btf_value_type_id ELSE 0]
        r1 == bpf_create_map_xattr(tab, attr1, ok1)
        retry == create_retry(r1.fd, attr1)
        attr2 == [attr1 EXCEPT !.btf_fd = 0, !.btf_key_type_id = 0,
                               !.btf_value_type_id = 0]
        map2 == IF retry
                THEN [map1 EXCEPT !.btf_key_type_id = 0, !.btf_value_type_id = 0]
                ELSE map1
        r2 == IF retry THEN bpf_create_map_xattr(r1.tab, attr2, ok2) ELSE r1
        evs == << Ev("map_create", i,
                     << attr1.btf_fd, attr1.btf_key_type_id,
                        attr1.btf_value_type_id >>, r1.fd) >>
               \o (IF retry
                   THEN << Ev("map_create", i,
                              << attr2.btf_fd, attr2.btf_key_type_id,
                                 attr2.btf_value_type_id >>, r2.fd) >>
                   ELSE << >>)
        prior == prior_fds(o, i)
    IN  IF create_skip(map)
        THEN [err |-> "0", obj |-> o, tab |-> tab, evs |-> << >>]
        ELSE IF r2.fd < 0
        THEN [err |-> "-1",
              obj |-> [o EXCEPT !.maps =
                         [j \in 1 .. Len(o.maps) |->
                            IF j < i THEN [o.maps[j] EXCEPT !.fd = -1]
                            ELSE IF j = i THEN [map2 EXCEPT !.fd = r2.fd]
                            ELSE o.maps[j]]],
              tab |-> close_all(r2.tab, prior),
              evs |-> evs]
        ELSE [err |-> "0",
              obj |-> [o EXCEPT !.maps[i] = [map2 EXCEPT !.fd = r2.fd]],
              tab |-> r2.tab, evs |-> evs]

\* where bpf_object__load goes when bpf_object__create_maps returned 0
after_create_maps == "relocate"

CreateMap(found, ok1, ok2) ==
    /\ pc = "create_maps"
    /\ li <= Len(Obj.maps)
    /\ LET r == create_map(Obj, fdtab, li, found, ok1, ok2)
       IN  /\ bpf_objects_list' = << r.obj >>
           /\ fdtab' = r.tab
           /\ log' = log \o r.evs
           /\ IF r.err = "0"
              THEN /\ li' = li + 1
                   /\ UNCHANGED <<pc, lerr>>
              ELSE /\ pc' = CHECK_ERR(r.err, "out", after_create_maps)
                   /\ lerr' = [err |-> r.err, phase |-> "create_maps", k |-> li]
                   /\ li' = IF pc' = "out" THEN li ELSE 1
    /\ UNCHANGED <<inst, ret, pre_fds, load_called>>

\* bpf_object__create_maps returns 0 after its last map
CreateMapsDone ==
    /\ pc = "create_maps"
    /\ li > Len(Obj.maps)
    /\ pc' = after_create_maps
    /\ li' = 1
    /\ UNCHANGED <<inst, bpf_objects_list, fdtab, lerr, ret, log, pre_fds, load_called>>

(* ----------------------------- relocation ------------------------------ *)
\* a test that asks for the text on every call relocation
text_missing_always(prog) == TRUE

\* the text program has not been appended to prog yet
text_missing(prog) == prog.main_prog_cnt = 0

\* a test that never takes prog for the .text program
relo_in_text_never(prog, o) == FALSE

\* the program that carries the relocation is the .text program itself
relo_in_text(prog, o) == prog.idx = o.text_shndx

\* bpf_program__reloc_text: append .text once, then bias the call
bpf_program__reloc_text(prog, o, relo, oom) ==
    LET t == bpf_object__find_prog_by_idx(o.programs, o.text_shndx)
        text == o.programs[t]
        first == text_missing(prog)
        new_cnt == prog.insns_cnt + text.insns_cnt
        prog1 == IF first
                 THEN [prog EXCEPT !.insns = prog.insns \o text.insns,
                                   !.main_prog_cnt = prog.insns_cnt,
                                   !.insns_cnt = new_cnt]
                 ELSE prog
        k == relo.insn_idx + 1
    IN  IF relo.type # "RELO_CALL" THEN [err |-> "-RELOC", prog |-> prog]
        ELSE IF relo_in_text(prog, o) THEN [err |-> "-RELOC", prog |-> prog]
        ELSE IF first /\ t = 0 THEN [err |-> "-RELOC", prog |-> prog]
        ELSE IF first /\ oom THEN [err |-> "-ENOMEM", prog |-> prog]
        ELSE [err |-> "0",
              prog |-> [prog1 EXCEPT !.insns[k].imm =
                           @ + prog1.main_prog_cnt - relo.insn_idx]]

\* a patch that leaves the source register alone
patch_map_fd_imm_only(insn, fd) == [insn EXCEPT !.imm = fd]

\* the two stores of a map relocation
patch_map_fd(insn, fd) == [insn EXCEPT !.src_reg = BPF_PSEUDO_MAP_FD, !.imm = fd]

\* the loop of bpf_program__relocate from relocation i (1-based) on; a patch
\* event records the symbol value and, for a map, the map index, for a call,
\* the immediate before the patch
RECURSIVE relocate_from(_, _, _, _)
relocate_from(prog, o, i, oom) ==
    IF i > prog.nr_reloc
    THEN [err |-> "0", evs |-> << >>,
          prog |-> [prog EXCEPT !.reloc_desc = << >>, !.nr_reloc = 0]]
    ELSE LET relo == prog.reloc_desc[i]
         IN  IF relo.type = "RELO_LD64"
             THEN IF relo.insn_idx >= prog.insns_cnt
                  THEN [err |-> "-RELOC", evs |-> << >>, prog |-> prog]
                  ELSE LET fd == o.maps[relo.val + 1].fd
                           p1 == [prog EXCEPT !.insns[relo.insn_idx + 1] =
                                                  patch_map_fd(@, fd)]
                           r == relocate_from(p1, o, i + 1, oom)
                       IN  [r EXCEPT !.evs =
                               << Ev("patch", relo.insn_idx,
                                     << "map", relo.st_value, relo.val >>, fd) >>
                               \o @]
             ELSE LET c == bpf_program__reloc_text(prog, o, relo, oom)
                      r == relocate_from(c.prog, o, i + 1, oom)
                  IN  IF c.err # "0"
                      THEN [err |-> c.err, evs |-> << >>, prog |-> c.prog]
                      ELSE [r EXCEPT !.evs =
                              << Ev("patch", relo.insn_idx,
                                    << "call", relo.st_value,
                                       prog.insns[relo.insn_idx + 1].imm >>,
                                    c.prog.insns[relo.insn_idx + 1].imm) >>
                              \o @]

\* bpf_program__relocate
bpf_program__relocate(prog, o, oom) ==
    IF prog.reloc_desc = << >>
    THEN [err |-> "0", evs |-> << >>, prog |-> prog]
    ELSE relocate_from(prog, o, 1, oom)

\* one iteration of the loop of bpf_object__relocate; each patch event is
\* completed with the program and its instruction count before relocation
Relocate(oom) ==
    /\ pc = "relocate"
    /\ li <= Len(Obj.programs)
    /\ LET r == bpf_program__relocate(Obj.programs[li], Obj, oom)
       IN  /\ bpf_objects_list' = << [Obj EXCEPT !.programs[li] = r.prog] >>
           /\ log' = log \o [k \in 1 .. Len(r.evs) |->
                                 [r.evs[k] EXCEPT !.req = @ \o
                                     << li, Obj.programs[li].insns_cnt >>]]
           /\ IF r.err = "0"
              THEN /\ li' = li + 1
                   /\ UNCHANGED <<inst, pc, lerr>>
              ELSE /\ pc' = "out"
                   /\ lerr' = [err |-> r.err, phase |-> "relocate", k |-> li]
                   /\ UNCHANGED li
    /\ UNCHANGED <<inst, fdtab, ret, pre_fds, load_called>>

\* bpf_object__relocate returns 0 after its last program
RelocateDone ==
    /\ pc = "relocate"
    /\ li > Len(Obj.programs)
    /\ pc' = "load_progs"
    /\ li' = 1
    /\ UNCHANGED <<inst, bpf_objects_list, fdtab, lerr, ret, log, pre_fds, load_called>>

(* ------------------------- program submission -------------------------- *)
\* the kernel's answers to one load_program: the first submission succeeds,
\* fails with a verifier log or fails without one; the kprobe probe succeeds
\* or not; the log buffer could be allocated or not
KOutcomes ==
    [first : {"ok", "log", "nolog"}, probe : BOOLEAN, log_buf : BOOLEAN]

\* bpf_load_program_xattr: a new program descriptor, or -1
bpf_load_program_xattr(tab, ok, origin) ==
    IF ok /\ HasFree(tab)
    THEN [fd |-> LowestFree(tab),
          tab |-> [tab EXCEPT ![LowestFree(tab)] =
                     [kind |-> "prog", origin |-> origin, info |-> NoInfo]]]
    ELSE [fd |-> -1, tab |-> tab]

\* a limit that lets a program of BPF_MAXINSNS instructions through
too_big_above(insns_cnt) == insns_cnt > BPF_MAXINSNS

\* the size test of load_program
too_big(insns_cnt) == insns_cnt >= BPF_MAXINSNS

\* a classification that looks at the size first
load_errno_size_first(has_log, insns_cnt) ==
    IF too_big(insns_cnt) THEN "-PROG2BIG"
    ELSE IF has_log THEN "-VERIFY"
    ELSE "probe"

\* what load_program makes of a failed submission: has_log is log_buf &&
\* log_buf[0] != 0; "probe" stands for the branch that asks about the type
load_errno(has_log, insns_cnt) ==
    IF has_log THEN "-VERIFY"
    ELSE IF too_big(insns_cnt) THEN "-PROG2BIG"
    ELSE "probe"

\* a probe for every kind
probe_wanted_always(type) == TRUE

\* the second submission is made for programs not declared kprobe
probe_wanted(type) == type # "KPROBE"

\* load_program: << >> is insns == NULL; tag names program and instance;
\* the event of the first submission records whether a log came back,
\* whether there was a buffer for it, and the instructions submitted
load_program(type, expected_attach_type, insns, insns_cnt, tab, k, tag) ==
    LET has_insns == insns # << >>
        r1 == bpf_load_program_xattr(tab, k.first = "ok", "load")
        has_log == k.log_buf /\ k.first = "log"
        ev1 == Ev("prog_load", tag[1],
                  << tag[2], type, expected_attach_type, insns_cnt, has_log,
                     k.log_buf, insns >>,
                  r1.fd)
        cls == load_errno(has_log, insns_cnt)
        r2 == bpf_load_program_xattr(tab, k.probe, "probe")
        ev2 == Ev("prog_probe", tag[1], << tag[2], "KPROBE", 0, insns_cnt >>,
                  r2.fd)
    IN  IF ~has_insns \/ insns_cnt = 0
        THEN [ret |-> "-EINVAL", fd |-> -1, tab |-> tab, evs |-> << >>]
        ELSE IF r1.fd >= 0
        THEN [ret |-> "0", fd |-> r1.fd, tab |-> r1.tab, evs |-> << ev1 >>]
        ELSE IF cls # "probe"
        THEN [ret |-> cls, fd |-> -1, tab |-> tab, evs |-> << ev1 >>]
        ELSE IF probe_wanted(type) /\ r2.fd >= 0
        THEN \* the probe descriptor is closed at once
             [ret |-> "-PROGTYPE", fd |-> -1, tab |-> sys_close(r2.tab, r2.fd),
              evs |-> << ev1, ev2 >>]
        ELSE [ret |-> IF k.log_buf THEN "-KVER" ELSE "-LOAD",
              fd |-> -1, tab |-> tab,
              evs |-> IF probe_wanted(type) THEN << ev1, ev2 >> ELSE << ev1 >>]

\* a label out that releases nothing
load_out_keep(prog) == prog

\* the label out of bpf_program__load: the instructions are released
load_out(prog) == [prog EXCEPT !.insns = << >>, !.insns_cnt = 0]

\* a load that forgets the descriptor
store_fd_drop(prog, fd) == prog

\* the descriptor of the only instance is stored
store_fd(prog, fd) == [prog EXCEPT !.instances.fds[1] = fd]

\* bpf_program__load up to its instance loop; next is "instances" when the
\* loop has to run, "done" when the function has returned
bpf_program__load(prog, tab, k, fds_oom, tag) ==
    LET fresh == prog.instances.nr < 0 \/ prog.instances.fds = << >>
        prog1 == IF fresh
                 THEN [prog EXCEPT !.instances = [nr |-> 1, fds |-> << -1 >>]]
                 ELSE prog
        l == load_program(prog1.type, prog1.expected_attach_type,
                          prog1.insns, prog1.insns_cnt, tab, k, tag)
    IN  IF fresh /\ prog.preprocessor
        THEN [err |-> "-INTERNAL", prog |-> prog, tab |-> tab, evs |-> << >>,
              next |-> "done"]
        ELSE IF fresh /\ fds_oom
        THEN [err |-> "-ENOMEM", prog |-> prog, tab |-> tab, evs |-> << >>,
              next |-> "done"]
        ELSE IF ~prog1.preprocessor
        THEN [err |-> l.ret,
              prog |-> load_out(IF l.ret = "0"
                                THEN store_fd(prog1, l.fd)
                                ELSE prog1),
              tab |-> l.tab, evs |-> l.evs, next |-> "done"]
        ELSE [err |-> "0", prog |-> prog1, tab |-> tab, evs |-> << >>,
              next |-> "instances"]

\* what the preprocessor answers for one instance: an error, nothing to
\* load, a buffer of two instructions, a buffer of BPF_MAXINSNS instructions;
\* pfd tells whether result.pfd was set to a place of the caller
PrepResults ==
    [kind : {"err", "big"}, pfd : {FALSE}]
        \cup [kind : {"skip", "insns"}, pfd : BOOLEAN]

\* every instance lands in the first slot
instance_slot_first(i) == 1

\* the slot of instance i in instances.fds (the model counts from 1)
instance_slot(i) == i + 1

\* the writes through result.pfd, kept as events
pfd_write(pr, tag, fd) ==
    IF pr.pfd THEN << Ev("pfd", tag[1], << tag[2] >>, fd) >> ELSE << >>

\* one iteration of the instance loop of bpf_program__load, on instance i;
\* the preprocessor's result begins with two instructions;
\* the call of the preprocessor is kept as an event, with i and whether
\* result.pfd was set
load_instance(prog, tab, i, pr, k, tag) ==
    LET cnt == IF pr.kind = "big" THEN BPF_MAXINSNS ELSE 2
        l == load_program(prog.type, prog.expected_attach_type,
                          << EXIT, EXIT >>, cnt, tab, k, tag)
        call == << Ev("prep", tag[1], << i, pr.pfd >>, pr.kind) >>
    IN  IF pr.kind = "err"
        THEN [err |-> "-PREP", prog |-> prog, tab |-> tab, evs |-> call]
        ELSE IF pr.kind = "skip"
        THEN [err |-> "0",
              prog |-> [prog EXCEPT !.instances.fds[instance_slot(i)] = -1],
              tab |-> tab, evs |-> call \o pfd_write(pr, tag, -1)]
        ELSE IF l.ret # "0"
        THEN [err |-> l.ret, prog |-> prog, tab |-> l.tab,
              evs |-> call \o l.evs]
        ELSE [err |-> "0",
              prog |-> [prog EXCEPT !.instances.fds[instance_slot(i)] = l.fd],
              tab |-> l.tab, evs |-> call \o l.evs \o pfd_write(pr, tag, l.fd)]

\* one iteration of the loop of bpf_object__load_progs
LoadProg(k, fds_oom) ==
    /\ pc = "load_progs"
    /\ li <= Len(Obj.programs)
    /\ IF bpf_program__is_function_storage(Obj.programs[li], Obj)
       THEN /\ li' = li + 1
            /\ UNCHANGED <<bpf_objects_list, fdtab, pc, inst, lerr, log>>
       ELSE LET r == bpf_program__load(Obj.programs[li], fdtab, k, fds_oom,
                                       << li, 0 >>)
            IN  /\ bpf_objects_list' = << [Obj EXCEPT !.programs[li] = r.prog] >>
                /\ fdtab' = r.tab
                /\ log' = log \o r.evs
                /\ IF r.err # "0"
                   THEN /\ pc' = "out"
                        /\ lerr' = [err |-> r.err, phase |-> "load_progs",
                                    k |-> li]
                        /\ UNCHANGED <<li, inst>>
                   ELSE IF r.next = "instances"
                   THEN /\ pc' = "instances"
                        /\ inst' = 0
                        /\ UNCHANGED <<li, lerr>>
                   ELSE /\ li' = li + 1
                        /\ UNCHANGED <<pc, inst, lerr>>
    /\ UNCHANGED <<ret, pre_fds, load_called>>

\* the instance loop of bpf_program__load, the label out at its end
LoadInstance(pr, k) ==
    /\ pc = "instances"
    /\ LET prog == Obj.programs[li]
           r == load_instance(prog, fdtab, inst, pr, k, << li, inst >>)
           last == inst + 1 >= prog.instances.nr
       IN  /\ fdtab' = r.tab
           /\ log' = log \o r.evs
           /\ IF r.err # "0"
              THEN /\ bpf_objects_list' =
                         << [Obj EXCEPT !.programs[li] = load_out(r.prog)] >>
                   /\ pc' = "out"
                   /\ lerr' = [err |-> r.err, phase |-> "load_progs", k |-> li]
                   /\ UNCHANGED <<li, inst>>
              ELSE IF last
              THEN /\ bpf_objects_list' =
                         << [Obj EXCEPT !.programs[li] = load_out(r.prog)] >>
                   /\ pc' = "load_progs"
                   /\ li' = li + 1
                   /\ inst' = 0
                   /\ UNCHANGED lerr
              ELSE /\ bpf_objects_list' =
                         << [Obj EXCEPT !.programs[li] = r.prog] >>
                   /\ inst' = inst + 1
                   /\ UNCHANGED <<pc, li, lerr>>
    /\ UNCHANGED <<ret, pre_fds, load_called>>

\* bpf_object__load_progs returned 0: bpf_object__load returns 0
LoadDone ==
    /\ pc = "load_progs"
    /\ li > Len(Obj.programs)
    /\ pc' = "idle"
    /\ li' = 0
    /\ ret' = Ret("load", "0", << "done" >>)
    /\ UNCHANGED <<bpf_objects_list, fdtab, inst, lerr, log, pre_fds, load_called>>

\* the label out of bpf_object__load: unload everything, return err
LoadOut ==
    /\ pc = "out"
    /\ LET u == bpf_object__unload(Obj, fdtab)
       IN  /\ bpf_objects_list' = << u.obj >>
           /\ fdtab' = u.tab
    /\ pc' = "idle"
    /\ li' = 0
    /\ inst' = 0
    /\ ret' = Ret("load", lerr.err, << lerr.phase, lerr.k >>)
    /\ lerr' = NoErr
    /\ UNCHANGED <<log, pre_fds, load_called>>

(* --------------------------- specification ----------------------------- *)
Next ==
    \/ \E elf \in ElfInputs,
          call \in { c \in OpenCalls : c.prog_type \in {"UNSPEC", "XDP"} },
          fail \in { f \in OpenFails : f.stage \in {"none", "elf_version"} } :
           \E order \in Orders(elf) : Open(elf, call, fail, order, EXIT)
    \/ Close
    \/ Unload
    \/ \E p \in 1 .. 2, t \in ProgTypes : SetType(p, t)
    \/ \E p \in 1 .. 2, n \in {0, MaxInst} : SetPrep(p, n)
    \/ \E info \in PinnedInfos : UserGet(info)
    \/ \E fd \in Fds : UserClose(fd)
    \/ \E m \in 1 .. MaxMaps, fd \in Fds, fail \in ReuseFails :
           ReuseFd(m, fd, fail)
    \/ LoadEnter
    \/ \E found \in {<< >>} \cup { << b >> : b \in BtfIds },
          ok1 \in BOOLEAN, ok2 \in BOOLEAN : CreateMap(found, ok1, ok2)
    \/ CreateMapsDone
    \/ \E oom \in BOOLEAN : Relocate(oom)
    \/ RelocateDone
    \/ \E k \in KOutcomes, fds_oom \in BOOLEAN : LoadProg(k, fds_oom)
    \/ \E pr \in { r \in PrepResults : ~r.pfd }, k \in KOutcomes :
           LoadInstance(pr, k)
    \/ LoadDone
    \/ LoadOut

Spec == Init /\ [][Next]_vars

\* the life of one object whose preprocessors may set result.pfd
PrepNext ==
    \/ \E call \in { c \in OpenCalls : c.prog_type = "UNSPEC" } :
           Open(Elf(1, FALSE, 1, L_socket), call, [stage |-> "none", err |-> "0"],
                << 1 >>, EXIT)
    \/ Close
    \/ Unload
    \/ \E n \in {0, MaxInst} : SetPrep(1, n)
    \/ LoadEnter
    \/ \E ok1 \in BOOLEAN : CreateMap(<< >>, ok1, FALSE)
    \/ CreateMapsDone
    \/ \E oom \in BOOLEAN : Relocate(oom)
    \/ RelocateDone
    \/ \E k \in KOutcomes, fds_oom \in BOOLEAN : LoadProg(k, fds_oom)
    \/ \E pr \in PrepResults, k \in KOutcomes : LoadInstance(pr, k)
    \/ LoadDone
    \/ LoadOut

PrepSpec == Init /\ [][PrepNext]_vars

(* ------------------- map addresses loaded in .text --------------------- *)
\* .text loads a map address and is called by a program that loads one too;
\* .text is the first program of the table
L_textmap_first ==
    [progs |-> << Sec(".text", TextShndx, "", <<LD64, LDHI, EXIT>>),
                  Sec("kprobe/foo", 5, "foo", <<CALL, LD64, LDHI, EXIT>>) >>,
     rels  |-> << [sec |-> TextShndx, ents |-> << Rel(0, MapsShndx, 0) >>],
                  [sec |-> 5,
                   ents |-> << Rel(0, TextShndx, 0),
                               Rel(InsnSize, MapsShndx, 0) >>] >>]

\* the same with the caller in a section before .text
L_textmap_last ==
    [progs |-> << Sec("kprobe/foo", 2, "foo", <<CALL, LD64, LDHI, EXIT>>),
                  Sec(".text", TextShndx, "", <<LD64, LDHI, EXIT>>) >>,
     rels  |-> << [sec |-> TextShndx, ents |-> << Rel(0, MapsShndx, 0) >>],
                  [sec |-> 2,
                   ents |-> << Rel(0, TextShndx, 0),
                               Rel(InsnSize, MapsShndx, 0) >>] >>]

\* the life of one object of these two
RelocNext ==
    \/ \E l \in { L_textmap_first, L_textmap_last }, n \in 1 .. MaxMaps,
          call \in { c \in OpenCalls : c.prog_type = "UNSPEC" } :
           \E order \in Orders(Elf(n, FALSE, 1, l)) :
               Open(Elf(n, FALSE, 1, l), call, [stage |-> "none", err |-> "0"],
                    order, EXIT)
    \/ Close
    \/ Unload
    \/ LoadEnter
    \/ \E ok1 \in BOOLEAN : CreateMap(<< >>, ok1, FALSE)
    \/ CreateMapsDone
    \/ \E oom \in BOOLEAN : Relocate(oom)
    \/ RelocateDone
    \/ \E k \in KOutcomes, fds_oom \in BOOLEAN : LoadProg(k, fds_oom)
    \/ LoadDone
    \/ LoadOut

RelocSpec == Init /\ [][RelocNext]_vars

(* -------------------------------- pin ---------------------------------- *)
\* env is what the file system does with the path: "ok", "mkdir" when mkdir
\* fails with something else than EEXIST, "notbpffs" when the path is not
\* on a BPF file system
\* bpf_map__pin: check_path, then bpf_obj_pin, which fails on a descriptor
\* that is not open
bpf_map__pin(map, env) ==
    IF env = "notbpffs" THEN "-EINVAL"
    ELSE IF map.fd < 0 THEN "-errno"
    ELSE "0"

\* bpf_program__pin: check_path, the instance count, one file per instance
bpf_program__pin(prog, env) ==
    IF env = "notbpffs" THEN "-EINVAL"
    ELSE IF prog.instances.nr <= 0 THEN "-EINVAL"
    ELSE IF \E i \in 1 .. prog.instances.nr : prog.instances.fds[i] < 0
    THEN "-errno"
    ELSE "0"

\* bpf_object__pin: the guard, the directory, the maps, then the programs
\* bpf_program__next hands out; made tells whether mkdir was called
bpf_object__pin(o, env) ==
    LET badm == { m \in 1 .. Len(o.maps) : bpf_map__pin(o.maps[m], env) # "0" }
        progs == { q \in 1 .. Len(o.programs) :
                     ~bpf_program__is_function_storage(o.programs[q], o) }
        badp == { q \in progs : bpf_program__pin(o.programs[q], env) # "0" }
    IN  IF ~o.loaded
        THEN [err |-> "-ENOENT", stage |-> "guard", made |-> FALSE]
        ELSE IF env = "mkdir"
        THEN [err |-> "-errno", stage |-> "mkdir", made |-> TRUE]
        ELSE IF badm # {}
        THEN [err |-> bpf_map__pin(o.maps[CHOOSE m \in badm :
                                             \A n \in badm : m <= n], env),
              stage |-> "map", made |-> TRUE]
        ELSE IF badp # {}
        THEN [err |-> bpf_program__pin(o.programs[CHOOSE q \in badp :
                                                    \A n \in badp : q <= n],
                                       env),
              stage |-> "prog", made |-> TRUE]
        ELSE [err |-> "0", stage |-> "done", made |-> TRUE]

\* bpf_object__pin called by the user; the object is left as it is
Pin(env) ==
    /\ pc = "idle"
    /\ HasObj
    /\ LET r == bpf_object__pin(Obj, env)
       IN  ret' = Ret("pin", r.err, << r.stage, r.made, Obj >>)
    /\ UNCHANGED <<bpf_objects_list, fdtab, pc, li, inst, lerr, log, pre_fds,
                   load_called>>

\* the life of one object that may be pinned at any time
PinNext ==
    \/ \E n \in 0 .. MaxMaps,
          call \in { c \in OpenCalls : c.prog_type \in {"UNSPEC", "XDP"} } :
           \E order \in Orders(Elf(n, FALSE, 1, L_socket)) :
               Open(Elf(n, FALSE, 1, L_socket), call,
                    [stage |-> "none", err |-> "0"], order, EXIT)
    \/ Close
    \/ Unload
    \/ LoadEnter
    \/ \E ok1 \in BOOLEAN : CreateMap(<< >>, ok1, FALSE)
    \/ CreateMapsDone
    \/ \E oom \in BOOLEAN : Relocate(oom)
    \/ RelocateDone
    \/ \E k \in KOutcomes, fds_oom \in BOOLEAN : LoadProg(k, fds_oom)
    \/ LoadDone
    \/ LoadOut
    \/ \E env \in {"ok", "mkdir", "notbpffs"} : Pin(env)

PinSpec == Init /\ [][PinNext]_vars

(* ------------------------- the inputs of open -------------------------- *)
\* a relocation at the instruction behind the last one of the program
L_beyond ==
    [progs |-> << Sec("socket", 5, "prog", <<LD64, LDHI, EXIT>>) >>,
     rels  |-> << [sec |-> 5, ents |-> << Rel(3 * InsnSize, MapsShndx, 0) >>] >>]

\* a relocation against an undefined symbol (section index 0), and one
\* against a symbol of a data section
L_undef ==
    [progs |-> << Sec("socket", 5, "prog", <<LD64, LDHI, EXIT>>) >>,
     rels  |-> << [sec |-> 5, ents |-> << Rel(0, 0, 0) >>] >>]

L_data ==
    [progs |-> << Sec("socket", 5, "prog", <<LD64, LDHI, EXIT>>) >>,
     rels  |-> << [sec |-> 5, ents |-> << Rel(0, 6, 0) >>] >>]

L_text_undef ==
    [progs |-> << Sec(".text", TextShndx, "", <<EXIT>>),
                  Sec("kprobe/foo", 5, "foo", <<CALL, EXIT>>) >>,
     rels  |-> << [sec |-> 5, ents |-> << Rel(0, 0, 0) >>] >>]

\* a 64-bit immediate load whose symbol lies in .text, and a call whose
\* symbol lies in the maps section
L_ld_text ==
    [progs |-> << Sec(".text", TextShndx, "", <<EXIT>>),
                  Sec("socket", 5, "prog", <<LD64, LDHI, EXIT>>) >>,
     rels  |-> << [sec |-> 5, ents |-> << Rel(0, TextShndx, 0) >>] >>]

L_call_maps ==
    [progs |-> << Sec(".text", TextShndx, "", <<EXIT>>),
                  Sec("kprobe/foo", 5, "foo", <<CALL, EXIT>>) >>,
     rels  |-> << [sec |-> 5, ents |-> << Rel(0, MapsShndx, 0) >>] >>]

\* objects whose symbol table links to section i as its string table
StrtabInputs ==
    { [Elf(1, FALSE, 1, L_socket) EXCEPT !.strtabidx = i] :
          i \in {0, 1, Shnum - 2, Shnum - 1, Shnum} }

\* two map symbols at the same offset; the second symbol reaching beyond
\* the section; the symbols in descending order
MapSymInputs ==
    { [Elf(2, FALSE, 1, L_socket) EXCEPT !.map_syms[2].st_value = 0],
      [Elf(2, FALSE, 1, L_socket) EXCEPT
          !.map_syms[2].st_value = 2 * MapDefSz - 4],
      [Elf(2, FALSE, 1, L_socket) EXCEPT
          !.map_syms = << MapSym(2), MapSym(1) >>] }

\* maps sections of one or two definitions of sz bytes each, the byte at
\* position x of each set to v; sections of a size the symbols do not divide
MapsData(n, sz, x, v) ==
    Flatten([k \in 1 .. n |->
                [i \in 1 .. sz |->
                    IF i = x THEN v
                    ELSE IF i <= MapDefSz THEN ElfMapBytes(k)[i]
                    ELSE 0]])

MapDefInputs ==
    { [Elf(n, FALSE, 1, L_socket) EXCEPT
          !.maps_data = MapsData(n, sz, x, v),
          !.map_syms = [j \in 1 .. n |->
                           [MapSym(j) EXCEPT !.st_value = (j - 1) * sz]]] :
          n \in 1 .. 2, sz \in {MapDefSz - 4, MapDefSz, MapDefSz + 4},
          x \in {MapDefSz - 3, MapDefSz + 1, MapDefSz + 4}, v \in {0, 1} }
    \cup { [Elf(n, FALSE, 1, L_socket) EXCEPT
               !.maps_data = SubSeq(MapsData(2, MapDefSz, 1, 1), 1, len)] :
               n \in 1 .. 2, len \in {0, MapDefSz + 1, 2 * MapDefSz} }

\* symbol tables around one program section, and around .text
SymtabInputs ==
    { [Elf(1, FALSE, 1, L_socket) EXCEPT !.symtab = t] :
          t \in { << Sym(<< "loc" >>, 5, "STB_LOCAL"),
                     Sym(<< "other" >>, 6, "STB_GLOBAL"),
                     Sym(<< "g1" >>, 5, "STB_GLOBAL"),
                     Sym(<< "g2" >>, 5, "STB_GLOBAL") >>,
                  << Sym(<< "loc" >>, 5, "STB_LOCAL"),
                     Sym(<< "other" >>, 6, "STB_GLOBAL") >>,
                  << Sym(<< "" >>, 5, "STB_GLOBAL"),
                     Sym(<< "g2" >>, 5, "STB_GLOBAL") >>,
                  << Sym(<< >>, 5, "STB_GLOBAL") >>,
                  << >> } }
    \cup { [Elf(1, FALSE, 1, L_plain) EXCEPT !.symtab = t] :
              t \in { << Sym(<< "func" >>, TextShndx, "STB_GLOBAL"),
                         Sym(<< "prog" >>, 5, "STB_GLOBAL") >>,
                      << Sym(<< "func" >>, TextShndx, "STB_LOCAL"),
                         Sym(<< "prog" >>, 5, "STB_GLOBAL") >>,
                      << Sym(<< "func" >>, TextShndx, "STB_LOCAL") >> } }

ParseInputs ==
    ElfInputs \cup StrtabInputs \cup MapSymInputs \cup MapDefInputs
        \cup SymtabInputs
        \cup { Elf(1, FALSE, 1, L_beyond), Elf(1, FALSE, 1, L_undef),
               Elf(1, FALSE, 1, L_data), Elf(1, FALSE, 1, L_text_undef),
               Elf(0, FALSE, 1, L_undef), Elf(1, FALSE, 0, L_socket),
               Elf(1, FALSE, 1, L_ld_text), Elf(1, FALSE, 1, L_call_maps) }

\* objects without a kernel version: one that parses, one whose string
\* table index is bad, one whose relocation fails
KverInputs ==
    { [e EXCEPT !.kern_version = k] :
          e \in { Elf(1, FALSE, 1, L_socket), Elf(0, FALSE, 1, L_socket),
                  [Elf(1, FALSE, 1, L_socket) EXCEPT !.strtabidx = 0] },
          k \in {0, 1} }

NoFail == [stage |-> "none", err |-> "0"]

\* the opens that are tried: every input through two calls, the objects
\* with and without kernel version through every call, every failure of
\* the system on two objects
ParseRuns ==
    [elf : ParseInputs,
     call : { c \in OpenCalls : c.prog_type \in {"UNSPEC", "XDP"} },
     fail : {NoFail}, oob : OobInsns]
    \cup [elf : KverInputs, call : OpenCalls, fail : {NoFail}, oob : {EXIT}]
    \cup [elf : { e \in StrtabInputs : e.strtabidx <= 1 },
          call : { c \in OpenCalls : c.api = "bpf_object__open" },
          fail : OpenFails, oob : {EXIT}]

\* opening and closing
ParseNext ==
    \/ \E r \in ParseRuns :
           \E order \in Orders(r.elf) : Open(r.elf, r.call, r.fail, order, r.oob)
    \/ Close

ParseSpec == Init /\ [][ParseNext]_vars

(* ------------------------- the list of objects ------------------------- *)
\* the places calloc may put an object
ObjAddrs == { ObjPtr + i : i \in 0 .. (MaxObjs - 1) }

\* the object o as it lies at addr
At(o, addr) ==
    [f \in DOMAIN o \cup {"addr"} |-> IF f = "addr" THEN addr ELSE o[f]]

\* list_add: the entry becomes the first of the list
list_add(list, e) == << e >> \o list

\* a list_del that unlinks nothing
list_del_none(list, k) == list

\* list_del of the entry at position k
list_del(list, k) == SubSeq(list, 1, k - 1) \o SubSeq(list, k + 1, Len(list))

\* bpf_object__next: the object after prev, the first one for NULL (0);
\* NULL at the end of the list
bpf_object__next(list, prev) ==
    LET at == IF prev = 0 THEN 0
              ELSE CHOOSE k \in 1 .. Len(list) : list[k].addr = prev
    IN  IF at + 1 > Len(list) THEN 0 ELSE list[at + 1].addr

\* the objects bpf_object__next hands out, called from NULL until NULL
RECURSIVE walk_from(_, _)
walk_from(list, prev) ==
    LET next == bpf_object__next(list, prev)
    IN  IF next = 0 THEN << >> ELSE << next >> \o walk_from(list, next)

\* an open in a process that may hold other objects: bpf_object__new links
\* the object, a later failure closes and unlinks it
ListOpen(elf, fail, addr) ==
    /\ pc = "idle"
    /\ Len(log) < MaxListOps
    /\ Len(bpf_objects_list) < MaxObjs
    /\ \A k \in 1 .. Len(bpf_objects_list) : bpf_objects_list[k].addr # addr
    /\ \E order \in Orders(elf) :
          LET r == __bpf_object__open(elf, TRUE, fail, order, EXIT)
              linked == list_add(bpf_objects_list, At(r.obj, addr))
              ptr == IF r.err = "0" THEN addr ELSE ERR_PTR(errno_value(r.err))
          IN  /\ bpf_objects_list' =
                     IF fail.stage \in {"elf_version", "new"}
                     THEN bpf_objects_list
                     ELSE IF r.err = "0" THEN linked
                     ELSE list_del(linked, 1)
              /\ ret' = Ret("open", r.err, << r.stage, ptr >>)
              /\ log' = Append(log, Ev("open", addr, << >>, ptr))
    /\ UNCHANGED <<fdtab, pc, li, inst, lerr, pre_fds, load_called>>

\* bpf_object__close of the object at position k
ListClose(k) ==
    /\ pc = "idle"
    /\ Len(log) < MaxListOps
    /\ k \in 1 .. Len(bpf_objects_list)
    /\ fdtab' = bpf_object__unload(bpf_objects_list[k], fdtab).tab
    /\ bpf_objects_list' = list_del(bpf_objects_list, k)
    /\ ret' = Ret("close", "0", << >>)
    /\ log' = Append(log, Ev("close", bpf_objects_list[k].addr, << >>, 0))
    /\ UNCHANGED <<pc, li, inst, lerr, pre_fds, load_called>>

\* the caller goes through the list with bpf_object__next
ListWalk ==
    /\ pc = "idle"
    /\ ret' = Ret("next", "0", << walk_from(bpf_objects_list, 0) >>)
    /\ UNCHANGED <<bpf_objects_list, fdtab, pc, li, inst, lerr, log, pre_fds,
                   load_called>>

ListNext ==
    \/ \E elf \in { Elf(1, FALSE, 1, L_socket),
                    [Elf(1, FALSE, 1, L_socket) EXCEPT !.strtabidx = 0] },
          fail \in { f \in OpenFails : f.stage \in {"none", "new"} },
          addr \in ObjAddrs : ListOpen(elf, fail, addr)
    \/ \E k \in 1 .. MaxObjs : ListClose(k)
    \/ ListWalk

ListSpec == Init /\ [][ListNext]_vars

(* --------------------------- section names ---------------------------- *)
\* a C string is the sequence of its characters; a name is a record so that
\* the NULL pointer is a name too
Name(s) == [null |-> FALSE, s |-> s]

\* a comparison of the whole strings
strncmp_whole(a, b, n) == IF a = b THEN 0 ELSE 1

\* strncmp: 0 when the first n characters agree, or all up to a common NUL;
\* ch is the i-th character of a string, the terminating NUL after the last
strncmp(a, b, n) ==
    LET ch(s, i) == IF i <= Len(s) THEN s[i] ELSE "NUL"
    IN
    IF \E i \in 1 .. n : /\ ch(a, i) # ch(b, i)
                         /\ \A j \in 1 .. i - 1 : ch(a, j) = ch(b, j)
                                                  /\ ch(a, j) # "NUL"
    THEN 1 ELSE 0

BPF_PROG_SEC_FULL(string, ptype, atype) ==
    [sec |-> string, len |-> Len(string), prog_type |-> ptype,
     expected_attach_type |-> atype]

BPF_PROG_SEC(string, ptype) == BPF_PROG_SEC_FULL(string, ptype, "0")

BPF_S_PROG_SEC(string, ptype) ==
    BPF_PROG_SEC_FULL(string, "CGROUP_SOCK", ptype)

BPF_SA_PROG_SEC(string, ptype) ==
    BPF_PROG_SEC_FULL(string, "CGROUP_SOCK_ADDR", ptype)

section_names ==
    <<
       BPF_PROG_SEC(<< "s", "o", "c", "k", "e", "t" >>,
           "SOCKET_FILTER"),
       BPF_PROG_SEC(<< "k", "p", "r", "o", "b", "e", "/" >>,
           "KPROBE"),
       BPF_PROG_SEC(<< "k", "r", "e", "t", "p", "r", "o", "b", "e", "/" >>,
           "KPROBE"),
       BPF_PROG_SEC(<< "c", "l", "a", "s", "s", "i", "f", "i", "e", "r" >>,
           "SCHED_CLS"),
       BPF_PROG_SEC(<< "a", "c", "t", "i", "o", "n" >>,
           "SCHED_ACT"),
       BPF_PROG_SEC(<< "t", "r", "a", "c", "e", "p", "o", "i", "n", "t", "/" >>,
           "TRACEPOINT"),
       BPF_PROG_SEC(<< "r", "a", "w", "_", "t", "r", "a", "c", "e", "p", "o", "i", "n", "t", "/" >>,
           "RAW_TRACEPOINT"),
       BPF_PROG_SEC(<< "x", "d", "p" >>,
           "XDP"),
       BPF_PROG_SEC(<< "p", "e", "r", "f", "_", "e", "v", "e", "n", "t" >>,
           "PERF_EVENT"),
       BPF_PROG_SEC(<< "c", "g", "r", "o", "u", "p", "/", "s", "k", "b" >>,
           "CGROUP_SKB"),
       BPF_PROG_SEC(<< "c", "g", "r", "o", "u", "p", "/", "s", "o", "c", "k" >>,
           "CGROUP_SOCK"),
       BPF_PROG_SEC(<< "c", "g", "r", "o", "u", "p", "/", "d", "e", "v" >>,
           "CGROUP_DEVICE"),
       BPF_PROG_SEC(<< "l", "w", "t", "_", "i", "n" >>,
           "LWT_IN"),
       BPF_PROG_SEC(<< "l", "w", "t", "_", "o", "u", "t" >>,
           "LWT_OUT"),
       BPF_PROG_SEC(<< "l", "w", "t", "_", "x", "m", "i", "t" >>,
           "LWT_XMIT"),
       BPF_PROG_SEC(<< "l", "w", "t", "_", "s", "e", "g", "6", "l", "o", "c", "a", "l" >>,
           "LWT_SEG6LOCAL"),
       BPF_PROG_SEC(<< "s", "o", "c", "k", "o", "p", "s" >>,
           "SOCK_OPS"),
       BPF_PROG_SEC(<< "s", "k", "_", "s", "k", "b" >>,
           "SK_SKB"),
       BPF_PROG_SEC(<< "s", "k", "_", "m", "s", "g" >>,
           "SK_MSG"),
       BPF_PROG_SEC(<< "l", "i", "r", "c", "_", "m", "o", "d", "e", "2" >>,
           "LIRC_MODE2"),
       BPF_SA_PROG_SEC(<< "c", "g", "r", "o", "u", "p", "/", "b", "i", "n", "d", "4" >>,
           "BPF_CGROUP_INET4_BIND"),
       BPF_SA_PROG_SEC(<< "c", "g", "r", "o", "u", "p", "/", "b", "i", "n", "d", "6" >>,
           "BPF_CGROUP_INET6_BIND"),
       BPF_SA_PROG_SEC(<< "c", "g", "r", "o", "u", "p", "/", "c", "o", "n", "n", "e", "c", "t", "4" >>,
           "BPF_CGROUP_INET4_CONNECT"),
       BPF_SA_PROG_SEC(<< "c", "g", "r", "o", "u", "p", "/", "c", "o", "n", "n", "e", "c", "t", "6" >>,
           "BPF_CGROUP_INET6_CONNECT"),
       BPF_SA_PROG_SEC(<< "c", "g", "r", "o", "u", "p", "/", "s", "e", "n", "d", "m", "s", "g", "4" >>,
           "BPF_CGROUP_UDP4_SENDMSG"),
       BPF_SA_PROG_SEC(<< "c", "g", "r", "o", "u", "p", "/", "s", "e", "n", "d", "m", "s", "g", "6" >>,
           "BPF_CGROUP_UDP6_SENDMSG"),
       BPF_S_PROG_SEC(<< "c", "g", "r", "o", "u", "p", "/", "p", "o", "s", "t", "_", "b", "i", "n", "d", "4" >>,
           "BPF_CGROUP_INET4_POST_BIND"),
       BPF_S_PROG_SEC(<< "c", "g", "r", "o", "u", "p", "/", "p", "o", "s", "t", "_", "b", "i", "n", "d", "6" >>,
           "BPF_CGROUP_INET6_POST_BIND")
    >>

\* libbpf_prog_type_by_name: the first entry strncmp accepts; out holds
\* what the caller's two variables held before the call
libbpf_prog_type_by_name(name, out) ==
    LET hits == { i \in 1 .. Len(section_names) :
                    strncmp(name.s, section_names[i].sec,
                            section_names[i].len) = 0 }
        i == CHOOSE h \in hits : \A g \in hits : h <= g
    IN  IF name.null THEN [err |-> "-EINVAL", out |-> out]
        ELSE IF hits # {}
        THEN [err |-> "0",
              out |-> [prog_type |-> section_names[i].prog_type,
                       expected_attach_type |->
                           section_names[i].expected_attach_type]]
        ELSE [err |-> "-EINVAL", out |-> out]

\* section names: every entry, every entry with something after it, every
\* entry short of its last character, the empty name, a foreign name, NULL
SectionNames ==
    { Name(section_names[i].sec) : i \in 1 .. Len(section_names) }
        \cup { Name(section_names[i].sec \o t) :
                 i \in 1 .. Len(section_names),
                 t \in { << "x" >>, << "/", "a" >> } }
        \cup { Name(SubSeq(section_names[i].sec, 1, section_names[i].len - 1)) :
                 i \in 1 .. Len(section_names) }
        \cup { Name(<< >>), Name(<< "m", "a", "p", "s" >>),
                 [null |-> TRUE, s |-> << >>] }

ProgTypeByName(name, out) ==
    LET r == libbpf_prog_type_by_name(name, out)
    IN  /\ ret' = Ret("prog_type_by_name", r.err, << name, out, r.out >>)
        /\ UNCHANGED <<bpf_objects_list, fdtab, pc, li, inst, lerr, log,
                       pre_fds, load_called>>

\* the caller's variables hold one of two pairs before the call
NameNext ==
    \E name \in SectionNames,
       out \in { [prog_type |-> "UNSPEC", expected_attach_type |-> "0"],
                 [prog_type |-> "XDP",
                  expected_attach_type |-> "BPF_CGROUP_INET4_BIND"] } :
        ProgTypeByName(name, out)

NameSpec == Init /\ [][NameNext]_vars

(* ------------------------ bpf_prog_load_xattr -------------------------- *)
\* the characters of the section names of the input objects
SecChars(name) ==
    CASE name = "socket" -> << "s", "o", "c", "k", "e", "t" >>
      [] name = "kprobe/foo" -> << "k", "p", "r", "o", "b", "e", "/", "f", "o", "o" >>
      [] name = ".text" -> << ".", "t", "e", "x", "t" >>

\* the loop of bpf_prog_load_xattr over the programs bpf_program__next hands
\* out: each gets the type and expected attach type given, or those guessed
\* from its section name; the first failing guess ends the call; an expected
\* attach type of "0" is stored as 0
set_types(o, attr) ==
    LET ps == { q \in 1 .. Len(o.programs) :
                  ~bpf_program__is_function_storage(o.programs[q], o) }
        given == [prog_type |-> attr.prog_type,
                  expected_attach_type |-> attr.expected_attach_type]
        g == [q \in ps |->
                IF attr.prog_type = "UNSPEC"
                THEN libbpf_prog_type_by_name(
                         Name(SecChars(o.programs[q].section_name)), given)
                ELSE [err |-> "0", out |-> given]]
    IN  IF \E q \in ps : g[q].err # "0"
        THEN [err |-> "-EINVAL", obj |-> o]
        ELSE [err |-> "0",
              obj |-> [o EXCEPT !.programs =
                         [q \in 1 .. Len(o.programs) |->
                            IF q \in ps
                            THEN [o.programs[q] EXCEPT
                                    !.type = g[q].out.prog_type,
                                    !.expected_attach_type =
                                        IF g[q].out.expected_attach_type = "0"
                                        THEN 0
                                        ELSE g[q].out.expected_attach_type]
                            ELSE o.programs[q]]]]

\* the first program that is not function storage, 0 when there is none
first_prog(o) ==
    LET ps == { q \in 1 .. Len(o.programs) :
                  ~bpf_program__is_function_storage(o.programs[q], o) }
    IN  IF ps = {} THEN 0 ELSE CHOOSE q \in ps : \A n \in ps : q <= n

\* bpf_prog_load_xattr up to its call of bpf_object__load; r is what
\* __bpf_object__open returned. A pointer from open that is neither NULL
\* nor an error value nor an object is dereferenced: ub is what comes of
\* it, the end of the process or any return. stage names the step that
\* ended the call ("load" when bpf_object__load is entered), e the error of
\* the open.
bpf_prog_load_xattr(attr, r, ub) ==
    LET ptr == IF r.err = "0" THEN ObjPtr ELSE ERR_PTR(errno_value(r.err))
        t == set_types(r.obj, attr)
    IN  IF attr.null \/ attr.file = "NULL"
        THEN [err |-> "-EINVAL", stage |-> "attr", e |-> "0", obj |-> r.obj,
              ptr |-> 0]
        ELSE IF IS_ERR(ptr) \/ ptr = 0
        THEN [err |-> "-ENOENT", stage |-> "open", e |-> r.err, obj |-> r.obj,
              ptr |-> ptr]
        ELSE IF r.err # "0"
        THEN [err |-> ub, stage |-> "wild", e |-> r.err, obj |-> r.obj,
              ptr |-> ptr]
        ELSE IF t.err # "0"
        THEN [err |-> "-EINVAL", stage |-> "guess", e |-> "0", obj |-> t.obj,
              ptr |-> ptr]
        ELSE IF first_prog(t.obj) = 0
        THEN [err |-> "-ENOENT", stage |-> "first", e |-> "0", obj |-> t.obj,
              ptr |-> ptr]
        ELSE [err |-> "0", stage |-> "load", e |-> "0", obj |-> t.obj,
              ptr |-> ptr]

\* the call up to the point x describes: a return, the end of the process,
\* or the entry into bpf_object__load on the fresh object; ret keeps the
\* step that ended the call, *pobj and *prog_fd, and the error of the open
XattrCall(x) ==
    /\ pc = "idle"
    /\ ~HasObj
    /\ IF x.stage = "load"
       THEN /\ bpf_objects_list' = << [x.obj EXCEPT !.loaded = TRUE] >>
            /\ pc' = "create_maps"
            /\ li' = 1
            /\ lerr' = NoErr
            /\ pre_fds' = [m \in 1 .. Len(x.obj.maps) |-> x.obj.maps[m].fd]
            /\ ret' = Ret("load", "running", << >>)
            /\ load_called' = TRUE
       ELSE /\ ret' = Ret("prog_load_xattr", x.err,
                          << x.stage,
                             IF x.err = "0"
                             THEN [written |-> TRUE, pobj |-> x.ptr,
                                   prog_fd |-> -1]
                             ELSE [written |-> FALSE, pobj |-> 0,
                                   prog_fd |-> -1],
                             x.e >>)
            /\ pc' = IF x.err = "SIGSEGV" THEN "dead" ELSE pc
            /\ UNCHANGED <<bpf_objects_list, li, lerr, pre_fds, load_called>>
    /\ log' = << >>
    /\ UNCHANGED <<fdtab, inst>>

\* bpf_prog_load_xattr after bpf_object__load has returned: the object is
\* closed on an error, the outputs are written on success
XattrReturn ==
    /\ pc = "idle"
    /\ HasObj
    /\ ret.op = "load"
    /\ IF ret.err # "0"
       THEN /\ fdtab' = bpf_object__unload(Obj, fdtab).tab
            /\ bpf_objects_list' = << >>
            /\ ret' = Ret("prog_load_xattr", "-EINVAL",
                          << "load",
                             [written |-> FALSE, pobj |-> 0, prog_fd |-> -1],
                             "0" >>)
       ELSE /\ ret' = Ret("prog_load_xattr", "0",
                          << "done",
                             [written |-> TRUE, pobj |-> ObjPtr,
                              prog_fd |-> Obj.programs[first_prog(Obj)]
                                              .instances.fds[1]],
                             "0" >>)
            /\ UNCHANGED <<bpf_objects_list, fdtab>>
    /\ UNCHANGED <<pc, li, inst, lerr, log, pre_fds, load_called>>

\* calls of bpf_prog_load_xattr on a handful of objects, and the close of
\* what a successful call handed out
XattrNext ==
    \/ \E attr \in [null : {FALSE}, file : {"NULL", "path"},
                    prog_type : {"UNSPEC", "XDP"},
                    expected_attach_type : {"0"}]
                   \cup [null : {TRUE}, file : {"NULL"}, prog_type : {"UNSPEC"},
                         expected_attach_type : {"0"}],
          elf \in { Elf(1, FALSE, 1, L_socket),
                    [Elf(1, FALSE, 1, L_socket) EXCEPT !.strtabidx = 0],
                    Elf(1, FALSE, 1, L_plain),
                    Elf(1, TRUE, 1, L_textcall),
                    Elf(MaxMaps, TRUE, 1, L_call) },
          ub \in {"SIGSEGV", "0", "-EINVAL", "-ENOENT"} :
           \E order \in Orders(elf) :
               XattrCall(bpf_prog_load_xattr(
                             attr,
                             __bpf_object__open(
                                 elf, bpf_prog_type__needs_kver(attr.prog_type),
                                 [stage |-> "none", err |-> "0"], order, EXIT),
                             ub))
    \/ XattrReturn
    \/ ret.op = "prog_load_xattr" /\ Close
    \/ \E ok1 \in BOOLEAN : CreateMap(<< >>, ok1, FALSE)
    \/ CreateMapsDone
    \/ \E oom \in BOOLEAN : Relocate(oom)
    \/ RelocateDone
    \/ \E k \in KOutcomes, fds_oom \in BOOLEAN : LoadProg(k, fds_oom)
    \/ LoadDone
    \/ LoadOut

XattrSpec == Init /\ [][XattrNext]_vars

(* ------------------------------- claims -------------------------------- *)
LibOrigins == {"create", "load", "probe", "dup"}

LoadReturned == pc = "idle" /\ ret.op = "load"

LoadFailed == LoadReturned /\ ret.err # "0"

\* every map descriptor is -1, every program is unloaded, nothing is held
TornDown(o) ==
    /\ \A m \in 1 .. Len(o.maps) : o.maps[m].fd = -1
    /\ \A p \in 1 .. Len(o.programs) :
          /\ o.programs[p].instances.nr = -1
          /\ o.programs[p].instances.fds = << >>
    /\ \A n \in Fds : fdtab[n].origin \notin LibOrigins

\* C1 as stated: whenever bpf_object__load returns an error, every map has
\* descriptor -1 and every program has instances.nr = -1, nothing held
C1_AsStated == LoadFailed => TornDown(Obj)

\* C1 amended: whenever bpf_object__load returns an error that arose in map
\* creation, relocation or program submission (every error but the -EINVAL
\* of a call on an already loaded object), every map has descriptor -1 and
\* every program has instances.nr = -1 with no instance descriptor held
C1_LoadFailureTearsDown ==
    (LoadFailed /\ ret.arg[1] # "guard") => TornDown(Obj)

\* program 2 failed in submission after program 1 had been loaded
C1_Witness ==
    /\ LoadFailed
    /\ ret.arg = << "load_progs", 2 >>
    /\ \E e \in 1 .. Len(log) :
          log[e].ev = "prog_load" /\ log[e].idx = 1 /\ log[e].res >= 0
    /\ \E e \in 1 .. Len(log) : log[e].ev = "map_create" /\ log[e].res >= 0

\* C2: after bpf_object__close no descriptor that was stored in a map fd
\* field or a program instance slot of the object remains open
C2_CloseReleasesAll ==
    ret.op = "close" =>
        \A n \in ret.arg[1] \cup ret.arg[2] : fdtab[n].kind = "free"

\* an object holding map and program descriptors was closed
C2_Witness ==
    /\ ret.op = "close"
    /\ ret.arg[1] # {}
    /\ ret.arg[2] # {}

\* C3 as stated: every descriptor the library obtained and has not closed
\* is stored in a map fd field or program instance slot of an open object
C3_AsStated ==
    \A n \in Fds :
        (fdtab[n].kind # "free" /\ fdtab[n].origin # "user") =>
            /\ HasObj
            /\ n \in MapFds(Obj) \cup ProgFds(Obj)

\* C4: once bpf_object__load has been called on an object, a later call
\* returns -EINVAL, makes no kernel request and changes nothing
C4_SecondLoadRejected ==
    [][ (pc = "idle" /\ load_called /\ ret'.op = "load") =>
            /\ ret'.err = "-EINVAL"
            /\ pc' = "idle"
            /\ log' = << >>
            /\ bpf_objects_list' = bpf_objects_list
            /\ fdtab' = fdtab ]_vars

\* a second load was refused on an object that holds its descriptors
C4_Witness ==
    /\ ret = Ret("load", "-EINVAL", << "guard" >>)
    /\ MapFds(Obj) # {}
    /\ ProgFds(Obj) # {}

IsSubmit(e) == e.ev \in {"patch", "prog_load", "prog_probe"}

\* C5: within one load every map-creation request precedes the first patch
\* and the first submission, and nothing is patched or submitted when a
\* map creation failed
C5_MapsBeforePrograms ==
    /\ \A a, b \in 1 .. Len(log) :
          (log[a].ev = "map_create" /\ IsSubmit(log[b])) => a < b
    /\ (\/ lerr.phase = "create_maps"
        \/ LoadFailed /\ ret.arg[1] = "create_maps")
       => \A b \in 1 .. Len(log) : ~IsSubmit(log[b])

\* a load that created a map, patched and submitted a program
C5_Witness ==
    /\ LoadReturned
    /\ ret.err = "0"
    /\ \E a, b, c \in 1 .. Len(log) :
          /\ log[a].ev = "map_create"
          /\ log[b].ev = "patch"
          /\ log[c].ev = "prog_load"

\* C6: when creation of map k fails in bpf_object__create_maps, maps 0..k-1
\* are closed and set to -1 before the error is returned, and no descriptor
\* created in this pass stays open
C6_CreateFailureClosesPrior ==
    (pc = "out" /\ lerr.phase = "create_maps") =>
        /\ \A j \in 1 .. (lerr.k - 1) :
              /\ Obj.maps[j].fd = -1
              /\ pre_fds[j] >= 0 => fdtab[pre_fds[j]].kind = "free"
        /\ \A n \in Fds : fdtab[n].origin # "create"

\* creation of the second map failed after the first had been created
C6_Witness ==
    /\ pc = "out"
    /\ lerr.phase = "create_maps"
    /\ lerr.k = 2
    /\ log[1].ev = "map_create" /\ log[1].idx = 1 /\ log[1].res >= 0

\* the positions in log of the creation requests for map m
CreateReqs(m) ==
    { e \in 1 .. Len(log) : log[e].ev = "map_create" /\ log[e].idx = m }

Populated(req) == req[1] # 0 /\ req[2] # 0 /\ req[3] # 0

\* C7: at most two creation requests per map; a second one exactly when the
\* first failed and carried populated type fields; the second request and
\* the map then have all type fields zero
C7_RetryOnceWithoutTypes ==
    \A m \in 1 .. MaxMaps :
        LET R == CreateReqs(m)
        IN  /\ Cardinality(R) <= 2
            /\ \A a \in R :
                  LET first == \A b \in R : a <= b
                      failed_typed == log[a].res < 0 /\ Populated(log[a].req)
                  IN  /\ first => (failed_typed <=> Cardinality(R) = 2)
                      /\ ~first =>
                            /\ log[a].req = << 0, 0, 0 >>
                            /\ Obj.maps[m].btf_key_type_id = 0
                            /\ Obj.maps[m].btf_value_type_id = 0

\* a creation with type fields failed and the retry without them succeeded
C7_Witness ==
    \E a, b \in 1 .. Len(log) :
        /\ a < b
        /\ log[a].ev = "map_create" /\ log[b].ev = "map_create"
        /\ log[a].idx = log[b].idx
        /\ Populated(log[a].req)
        /\ log[b].res >= 0

\* C8: during load a creation request is sent only for maps whose descriptor
\* is -1; a map preset by bpf_map__reuse_fd is not created, and after a
\* successful load it still holds the descriptor installed by reuse
C8_PresetMapsKept ==
    /\ \A e \in 1 .. Len(log) :
          log[e].ev = "map_create" => pre_fds[log[e].idx] = -1
    /\ (LoadReturned /\ ret.err = "0") =>
          \A m \in 1 .. Len(pre_fds) :
              pre_fds[m] >= 0 =>
                  /\ Obj.maps[m].fd = pre_fds[m]
                  /\ fdtab[pre_fds[m]].origin = "dup"

\* a load succeeded on an object with one preset and one created map
C8_Witness ==
    /\ LoadReturned
    /\ ret.err = "0"
    /\ \E m \in 1 .. Len(pre_fds) : pre_fds[m] >= 0
    /\ \E e \in 1 .. Len(log) : log[e].ev = "map_create" /\ log[e].res >= 0

\* C9 as stated: if any step of bpf_map__reuse_fd fails, the map's
\* descriptor, name, definition and type ids are what they were before
C9_AsStated ==
    (ret.op = "reuse_fd" /\ ret.err # "0") => Obj.maps[ret.arg[1]] = ret.arg[4]

\* s is the C string held in the NUL terminated field a
IsCStringOf(s, a) ==
    /\ Len(s) < Len(a)
    /\ \A k \in 1 .. Len(s) : s[k] = a[k] /\ s[k] # 0
    /\ a[Len(s) + 1] = 0

\* C10: after a successful bpf_map__reuse_fd the name, kind, key size, value
\* size, capacity and flags read through the accessors are those the kernel
\* reported for the supplied descriptor, and the map's descriptor is a new
\* duplicate distinct from the caller's
C10_ReuseRoundTrip ==
    (ret.op = "reuse_fd" /\ ret.err = "0") =>
        LET map == Obj.maps[ret.arg[1]]
            fd == ret.arg[2]
            info == ret.arg[3]
        IN  /\ IsCStringOf(bpf_map__name(map), info.name)
            /\ bpf_map__def(map).type = info.type
            /\ bpf_map__def(map).key_size = info.key_size
            /\ bpf_map__def(map).value_size = info.value_size
            /\ bpf_map__def(map).max_entries = info.max_entries
            /\ bpf_map__def(map).map_flags = info.map_flags
            /\ bpf_map__fd(map) # fd
            /\ bpf_map__fd(map) \in Fds
            /\ fdtab[bpf_map__fd(map)].origin = "dup"
            /\ fdtab[bpf_map__fd(map)].info = info

\* a map that already held a descriptor was reused with a pinned map
C10_Witness ==
    /\ ret.op = "reuse_fd"
    /\ ret.err = "0"
    /\ ret.arg[3] \in PinnedInfos
    /\ ret.arg[4].fd >= 0

\* the error bpf_object__load is returning or has returned
LoadErr == IF pc = "out" THEN lerr.err ELSE ret.err

LoadSucceeded == LoadReturned /\ ret.err = "0"

\* C11: after bpf_object__load returns success every map of the object,
\* created or reused, has a descriptor >= 0
C11_MapsHaveDescriptors ==
    LoadSucceeded =>
        \A m \in 1 .. Len(Obj.maps) :
            /\ bpf_map__fd(Obj.maps[m]) >= 0
            /\ fdtab[bpf_map__fd(Obj.maps[m])].kind = "map"

\* a load succeeded on an object with two maps, both created by the load
C11_Witness ==
    /\ LoadSucceeded
    /\ Len(Obj.maps) = 2
    /\ \A m \in 1 .. 2 : fdtab[Obj.maps[m].fd].origin = "create"

\* the positions in log of the submissions of program p
Submissions(p) ==
    { e \in 1 .. Len(log) : log[e].ev = "prog_load" /\ log[e].idx = p }

IsText(prog, o) == prog.idx = o.text_shndx

\* C12: after bpf_object__load returns success every non-text program
\* without a preprocessor has instances.nr = 1 and its single instance
\* descriptor is >= 0, obtained from exactly one submission of that program
C12_OneInstancePerProgram ==
    LoadSucceeded =>
        \A p \in 1 .. Len(Obj.programs) :
            LET prog == Obj.programs[p]
            IN  (~IsText(prog, Obj) /\ ~prog.preprocessor) =>
                    /\ prog.instances.nr = 1
                    /\ Len(prog.instances.fds) = 1
                    /\ prog.instances.fds[1] >= 0
                    /\ fdtab[prog.instances.fds[1]].origin = "load"
                    /\ Cardinality(Submissions(p)) = 1
                    /\ \A e \in Submissions(p) :
                          log[e].res = prog.instances.fds[1]
                    /\ \A e \in 1 .. Len(log) :
                          ~(log[e].ev = "prog_probe" /\ log[e].idx = p)

\* a load succeeded on an object with two programs that are not .text
C12_Witness ==
    /\ LoadSucceeded
    /\ \E p, q \in 1 .. Len(Obj.programs) :
          /\ p # q
          /\ ~IsText(Obj.programs[p], Obj) /\ ~Obj.programs[p].preprocessor
          /\ ~IsText(Obj.programs[q], Obj) /\ ~Obj.programs[q].preprocessor

\* the positions in log of the probe submissions made for program p
Probes(p) ==
    { e \in 1 .. Len(log) : log[e].ev = "prog_probe" /\ log[e].idx = p }

Held(prog) ==
    { i \in 1 .. Len(prog.instances.fds) : prog.instances.fds[i] >= 0 }

Relocated(p) ==
    /\ HasObj
    /\ p \in 1 .. Len(Obj.programs)
    /\ \/ pc = "relocate" /\ p < li
       \/ pc \in {"load_progs", "instances"} /\ p >= li

\* the positions in log of the patches of kind k ("map", "call") in program p
Patches(p, k) ==
    { e \in 1 .. Len(log) :
        log[e].ev = "patch" /\ log[e].req[1] = k /\ log[e].req[4] = p }

TextProg == Obj.programs[bpf_object__find_prog_by_idx(Obj.programs, Obj.text_shndx)]

\* C15: for a program with n >= 1 local-call relocations, in any order among
\* its relocations, successful patching appends the text program's
\* instructions exactly once: the final count is the original count plus
\* the text program's count and main_prog_cnt is the original count
C15_TextAppendedOnce ==
    HasObj => \A p \in 1 .. Len(Obj.programs) :
        (Relocated(p) /\ Patches(p, "call") # {}) =>
            LET prog == Obj.programs[p]
            IN  \A e \in Patches(p, "call") :
                    LET orig == log[e].req[5]
                    IN  /\ prog.insns_cnt = orig + TextProg.insns_cnt
                        /\ Len(prog.insns) = prog.insns_cnt
                        /\ prog.main_prog_cnt = orig
                        /\ SubSeq(prog.insns, orig + 1, prog.insns_cnt)
                               = TextProg.insns

\* a program was relocated that calls twice, with a map load in between
C15_Witness ==
    HasObj /\ \E p \in 1 .. Len(Obj.programs) :
        /\ Relocated(p)
        /\ \E a, c \in Patches(p, "call"), b \in Patches(p, "map") :
              a < b /\ b < c

\* C16 as stated: every local-call patch changes the immediate to its old
\* value plus (main_prog_cnt - i), and the call target i + 1 + immediate lies
\* inside the appended copy of the text program at the callee's offset, the
\* instruction the relocation symbol and the old immediate designate
C16_AsStated ==
    \A e \in 1 .. Len(log) :
        (log[e].ev = "patch" /\ log[e].req[1] = "call") =>
            LET i == log[e].idx
                st_value == log[e].req[2]
                old == log[e].req[3]
                main_prog_cnt == log[e].req[5]
                imm == log[e].res
                target == i + 1 + imm
                callee == st_value \div InsnSize + old + 1
            IN  /\ imm = old + (main_prog_cnt - i)
                /\ target >= main_prog_cnt
                /\ target < main_prog_cnt + TextProg.insns_cnt
                /\ target = main_prog_cnt + callee

\* C17: after successful relocation, at every map-fd relocation of a program
\* the instruction has the map-fd pseudo source register and the descriptor
\* held at patch time by the map whose offset is the relocation symbol's
\* value; the program's relocation list is empty
C17_MapFdPatched ==
    HasObj => \A p \in 1 .. Len(Obj.programs) :
        Relocated(p) =>
            LET prog == Obj.programs[p]
            IN  /\ prog.reloc_desc = << >>
                /\ prog.nr_reloc = 0
                /\ \A e \in Patches(p, "map") :
                      LET insn == prog.insns[log[e].idx + 1]
                          M == { m \in 1 .. Len(Obj.maps) :
                                   Obj.maps[m].offset = log[e].req[2] }
                      IN  /\ insn.src_reg = BPF_PSEUDO_MAP_FD
                          /\ insn.imm = log[e].res
                          /\ insn.imm >= 0
                          /\ Cardinality(M) = 1
                          /\ \A m \in M : Obj.maps[m].fd = insn.imm

\* a program was relocated that loads the address of the second map
C17_Witness ==
    HasObj /\ \E p \in 1 .. Len(Obj.programs) :
        /\ Relocated(p)
        /\ \E e \in Patches(p, "map") :
              log[e].req[2] = MapDefSz /\ log[e].res >= 0

\* the positions in log of the submissions the kernel refused
FailedLoads == { e \in 1 .. Len(log) : log[e].ev = "prog_load" /\ log[e].res < 0 }

\* C18: a failed submission that produced a non-empty verifier log is
\* reported as VERIFY whatever the instruction count, without a probe
C18_LogMeansVerify ==
    \A e \in FailedLoads :
        log[e].req[5] =>
            /\ LoadErr = "-VERIFY"
            /\ e = Len(log)

\* a submission of BPF_MAXINSNS instructions failed with a log
C18_Witness ==
    \E e \in FailedLoads :
        /\ log[e].req[5]
        /\ log[e].req[4] >= BPF_MAXINSNS
        /\ LoadErr = "-VERIFY"

\* C19: a failed submission with an empty verifier log and an instruction
\* count >= BPF_MAXINSNS (4096) is reported as PROG2BIG, without a probe
C19_BigMeansProg2Big ==
    \A e \in FailedLoads :
        (~log[e].req[5] /\ log[e].req[4] >= 4096) =>
            /\ LoadErr = "-PROG2BIG"
            /\ e = Len(log)

\* a submission of exactly 4096 instructions failed without a log
C19_Witness ==
    \E e \in FailedLoads :
        /\ ~log[e].req[5]
        /\ log[e].req[4] = 4096
        /\ LoadErr = "-PROG2BIG"

\* the failed submissions with an empty log and a count below the maximum
SmallSilentFailures ==
    { e \in FailedLoads : ~log[e].req[5] /\ log[e].req[4] < BPF_MAXINSNS }

\* log[e + 1] is the one probe that follows the failed submission log[e]
ProbeFollows(e) ==
    /\ Len(log) = e + 1
    /\ log[e + 1].ev = "prog_probe"
    /\ log[e + 1].idx = log[e].idx
    /\ log[e + 1].req = << log[e].req[1], "KPROBE", 0, log[e].req[4] >>

\* nothing of the probe is left: its descriptor is closed and the slot of
\* the instance holds no descriptor
ProbeDropped(e) ==
    /\ \A n \in Fds : fdtab[n].origin # "probe"
    /\ pc = "out" =>
          Obj.programs[log[e].idx].instances.fds[log[e].req[1] + 1] = -1
    /\ LoadReturned => ProgFds(Obj) = {}

Preps(p) == { e \in 1 .. Len(log) : log[e].ev = "prep" /\ log[e].idx = p }

\* the object still has what the load in the log gave it
Live == HasObj /\ (pc # "idle" \/ LoadSucceeded)

\* the request that follows the preprocessor's call e, when it gave a buffer
SubmissionOf(e) ==
    { f \in Submissions(log[e].idx) : log[f].req[1] = log[e].req[1] }

\* C21: for a program with a preprocessor, load calls the preprocessor for
\* the instances 0, 1, ... in order; an instance the preprocessor declines
\* keeps -1 and is not submitted; every other instance is submitted once,
\* its descriptor goes to slot i and through result.pfd if that was set; the
\* first failure of the preprocessor or of a submission ends the loop
C21_InstancesInOrder ==
    \A e \in 1 .. Len(log) :
        /\ log[e].ev = "prep" =>
              LET p == log[e].idx
                  i == log[e].req[1]
                  pfd == log[e].req[2]
                  kind == log[e].res
                  gave == kind \in {"insns", "big"}
                  failed == \/ kind = "err"
                            \/ gave /\ log[e + 1].res < 0
              IN  /\ i = Cardinality({ f \in Preps(p) : f < e })
                  /\ Live => /\ Obj.programs[p].preprocessor
                             /\ i < Obj.programs[p].instances.nr
                  /\ (Live /\ (p < li \/ LoadSucceeded)) =>
                         Cardinality(Preps(p)) = Obj.programs[p].instances.nr
                  /\ SubmissionOf(e) = IF gave THEN {e + 1} ELSE {}
                  /\ (kind = "skip" /\ Live) =>
                         Obj.programs[p].instances.fds[i + 1] = -1
                  /\ (kind = "skip" /\ pfd) =>
                         /\ e + 1 <= Len(log)
                         /\ log[e + 1] = Ev("pfd", p, << i >>, -1)
                  /\ (gave /\ ~failed /\ Live) =>
                         Obj.programs[p].instances.fds[i + 1] = log[e + 1].res
                  /\ (gave /\ ~failed /\ pfd) =>
                         /\ e + 2 <= Len(log)
                         /\ log[e + 2] = Ev("pfd", p, << i >>, log[e + 1].res)
                  /\ failed =>
                         \A f \in (e + 1) .. Len(log) :
                             /\ log[f].ev # "prep"
                             /\ log[f].ev = "prog_load" => f = e + 1
                             /\ log[f].ev # "pfd"
        /\ log[e].ev = "pfd" =>
              \E f \in Preps(log[e].idx) :
                  /\ log[f].req = << log[e].req[1], TRUE >>
                  /\ f = IF log[f].res = "skip" THEN e - 1 ELSE e - 2

\* two instances: the first declined, the second loaded and reported
C21_Witness ==
    /\ LoadSucceeded
    /\ \E p \in 1 .. Len(Obj.programs) :
          /\ Obj.programs[p].instances.nr = MaxInst
          /\ Obj.programs[p].instances.fds[1] = -1
          /\ Obj.programs[p].instances.fds[MaxInst] >= 0
          /\ \E e \in 1 .. Len(log) :
                log[e] = Ev("pfd", p, << MaxInst - 1 >>,
                            Obj.programs[p].instances.fds[MaxInst])
(* ---------------------- the instruction buffer ------------------------- *)
\* where and how bpf_object__load_progs failed, << 0, "0" >> when it did not
ProgsFailure ==
    IF pc = "out" /\ lerr.phase = "load_progs" THEN << lerr.k, lerr.err >>
    ELSE IF LoadFailed /\ ret.arg[1] = "load_progs"
    THEN << ret.arg[2], ret.err >>
    ELSE << 0, "0" >>

\* bpf_object__load_progs has gone past program p in the running or just
\* returned load: bpf_program__load was called on it, or it was skipped
PassedBy(p) ==
    \/ pc \in {"load_progs", "instances"} /\ p < li
    \/ ProgsFailure[1] # 0 /\ p <= ProgsFailure[1]
    \/ LoadSucceeded

\* bpf_program__load returned from p before it reached its submissions
ReturnedEarly(p) ==
    ProgsFailure[1] = p /\ ProgsFailure[2] \in {"-INTERNAL", "-ENOMEM"}

Intact(prog) == prog.insns # << >> /\ prog.insns_cnt = Len(prog.insns)

Released(prog) == prog.insns = << >> /\ prog.insns_cnt = 0

\* C22 as stated: after bpf_program__load was attempted on a program,
\* whether it succeeded or failed, its instructions are released and the
\* count is 0
C22_AsStated ==
    HasObj =>
        \A p \in 1 .. Len(Obj.programs) :
            (PassedBy(p) /\ ~bpf_program__is_function_storage(Obj.programs[p], Obj))
                => Released(Obj.programs[p])

\* C22: after bpf_program__load has returned for a program, its instructions
\* are released and the count is 0, on success and on a failure of the
\* preprocessor or of a submission; when it returned -INTERNAL or -ENOMEM
\* before its first submission the buffer is left as it was, and so is the
\* buffer of the skipped .text program of an object with local calls
C22_InsnsReleasedAtOut ==
    HasObj =>
        \A p \in 1 .. Len(Obj.programs) :
            PassedBy(p) =>
                IF bpf_program__is_function_storage(Obj.programs[p], Obj)
                       \/ ReturnedEarly(p)
                THEN Intact(Obj.programs[p])
                ELSE Released(Obj.programs[p])

\* a load that released one program, skipped the .text program and came
\* back from the next program with -ENOMEM
C22_Witness ==
    /\ LoadFailed
    /\ ProgsFailure[2] = "-ENOMEM"
    /\ Intact(Obj.programs[ProgsFailure[1]])
    /\ \E p, q \in 1 .. Len(Obj.programs) :
          /\ p < ProgsFailure[1] /\ q < ProgsFailure[1]
          /\ Released(Obj.programs[p])
          /\ bpf_program__is_function_storage(Obj.programs[q], Obj)
          /\ Intact(Obj.programs[q])
(* ------------------------------- open ---------------------------------- *)
Opened == pc = "idle" /\ ret.op = "open"

OpenStage == ret.arg[1]
OpenPtr == ret.arg[2]
OpenElf == ret.arg[3]
OpenCall == ret.arg[4]

\* C23 as stated: every failure during __bpf_object__open leaves no object
\* in the list and returns a value libbpf_get_error reports as negative
C23_AsStated ==
    (Opened /\ OpenStage # "none") =>
        /\ ~HasObj
        /\ libbpf_get_error(OpenPtr) < 0

\* the sweep went through every section
SweepDone ==
    Opened /\ OpenStage \notin {"elf_version", "new", "elf_init", "endian", "sweep"}

\* C24 as stated: after the section sweep parsing fails with FORMAT exactly
\* when the string table index is 0 or not below the section count; a
\* string table in the highest section is accepted
C24_AsStated ==
    SweepDone =>
        (OpenStage = "strtab" /\ ret.err \in {"FORMAT", "-FORMAT"})
            <=> (OpenElf.strtabidx = 0 \/ ~(OpenElf.strtabidx < OpenElf.shnum))

\* the kinds the claim exempts from the kernel version
ExemptKinds ==
    {"SOCKET_FILTER", "SCHED_CLS", "SCHED_ACT", "XDP", "CGROUP_SKB",
     "CGROUP_SOCK", "CGROUP_DEVICE", "CGROUP_SOCK_ADDR", "LWT_IN", "LWT_OUT",
     "LWT_XMIT", "LWT_SEG6LOCAL", "SOCK_OPS", "SK_SKB", "SK_MSG", "LIRC_MODE2"}

\* the same open would have gone through if no kernel version were asked for
ParsesOtherwise ==
    __bpf_object__open(OpenElf, FALSE, ret.arg[5], ret.arg[6], ret.arg[7]).err
        = "0"

\* C25: open fails with KVERSION exactly when parsing otherwise succeeded,
\* the kernel version of the object is 0 and the call requires one:
\* bpf_object__open and bpf_object__open_buffer always, bpf_object__open_xattr
\* for every kind outside the exempt ones
C25_KversionExactly ==
    Opened =>
        /\ (ret.err = "-KVERSION")
              <=> /\ ParsesOtherwise
                  /\ OpenElf.kern_version = 0
                  /\ \/ OpenCall.api \in {"bpf_object__open",
                                          "bpf_object__open_buffer"}
                     \/ OpenCall.prog_type \notin ExemptKinds
        /\ ret.err = "-KVERSION" =>
              /\ ~HasObj
              /\ OpenStage = "validate"
              /\ libbpf_get_error(OpenPtr) = errno_value("-KVERSION")

\* an object without version refused for a tracepoint program
C25_Witness ==
    /\ Opened
    /\ ret.err = "-KVERSION"
    /\ OpenCall.api = "bpf_object__open_xattr"
    /\ OpenCall.prog_type = "TRACEPOINT"

\* C26 as stated: in an opened object the map table is strictly ascending
\* by offset
C26_AsStated ==
    HasObj =>
        \A i, j \in 1 .. Len(Obj.maps) :
            i < j => Obj.maps[i].offset < Obj.maps[j].offset

\* C27 as stated: in an opened object every collected relocation lies
\* inside the instructions of its program
C27_AsStated ==
    (HasObj /\ Opened) =>
        \A p \in 1 .. Len(Obj.programs) :
            \A d \in 1 .. Len(Obj.programs[p].reloc_desc) :
                Obj.programs[p].reloc_desc[d].insn_idx
                    < Obj.programs[p].insns_cnt

\* the maps section of the input was looked at
MapsReached ==
    /\ SweepDone /\ OpenStage # "strtab"
    /\ OpenElf.has_maps /\ Len(OpenElf.map_syms) > 0

MapsD == Len(OpenElf.maps_data) \div Len(OpenElf.map_syms)

MapsDivide ==
    /\ Len(OpenElf.maps_data) # 0
    /\ Len(OpenElf.maps_data) % Len(OpenElf.map_syms) = 0

SymsInside ==
    \A j \in 1 .. Len(OpenElf.map_syms) :
        OpenElf.map_syms[j].st_value + MapsD <= Len(OpenElf.maps_data)

\* the definition the claim expects for the symbol at offset off
ExpectedDef(off) ==
    bpf_map_def([i \in 1 .. MapDefSz |->
                    IF i <= MapsD THEN OpenElf.maps_data[off + i] ELSE 0])

TailsZero ==
    \A j \in 1 .. Len(OpenElf.map_syms) :
        \A i \in (MapDefSz + 1) .. MapsD :
            OpenElf.maps_data[OpenElf.map_syms[j].st_value + i] = 0

\* C28: with D the size of the maps section divided by the number of map
\* symbols: a size of 0 or one the symbols do not divide fails with EINVAL;
\* for symbols inside the section, D up to the native size is accepted and
\* the definition is the D bytes followed by zeros, a larger D is accepted
\* exactly when every byte from the native size to D is zero, the definition
\* being the first native-size bytes, and fails with EINVAL otherwise
C28_MapDefSize ==
    MapsReached =>
        /\ ~MapsDivide =>
              /\ OpenStage = "maps"
              /\ libbpf_get_error(OpenPtr) = errno_value("-EINVAL")
        /\ (MapsDivide /\ SymsInside) =>
              /\ (OpenStage # "maps") <=> (MapsD <= MapDefSz \/ TailsZero)
              /\ OpenStage = "maps" =>
                    libbpf_get_error(OpenPtr) = errno_value("-EINVAL")
              /\ HasObj =>
                    \A m \in 1 .. Len(Obj.maps) :
                        Obj.maps[m].def = ExpectedDef(Obj.maps[m].offset)

\* two definitions of four bytes more than the native size, a byte set in
\* the excess: refused
C28_Witness ==
    /\ MapsReached /\ MapsDivide /\ SymsInside
    /\ Len(OpenElf.map_syms) = 2
    /\ MapsD = MapDefSz + 4
    /\ ~TailsZero
    /\ OpenStage = "maps"

\* the symbol of a relocation entry lies in the maps section or in .text
InMapsOrText(elf, rel) ==
    \/ elf.has_maps /\ rel.st_shndx = MapsShndx
    \/ /\ \E p \in 1 .. Len(elf.progs) : elf.progs[p].section_name = ".text"
       /\ rel.st_shndx = TextShndx

\* C29 as stated: relocation collection fails with RELOC for every entry
\* whose symbol is neither in the maps section nor in .text, also when the
\* object has no .text or no maps section
C29_AsStated ==
    (Opened /\ OpenStage \in {"reloc", "validate", "none"}) =>
        ((\E k \in 1 .. Len(OpenElf.rels) :
             \E e \in 1 .. Len(OpenElf.rels[k].ents) :
                 ~InMapsOrText(OpenElf, OpenElf.rels[k].ents[e]))
            => (OpenStage = "reloc" /\ ret.err = "-RELOC"))
(* ------------------------ calls inside .text --------------------------- *)
\* the .text program of o carries a relocation of a local call
TextCarriesCall(o) ==
    \E p \in 1 .. Len(o.programs) :
        /\ IsText(o.programs[p], o)
        /\ \E d \in 1 .. Len(o.programs[p].reloc_desc) :
              o.programs[p].reloc_desc[d].type = "RELO_CALL"

\* C30: when the .text program itself carries a local-call relocation,
\* patching it fails with RELOC, so a load of the object never gets to submit
\* a program and never succeeds, and after the unload of the failed load the
\* object holds no descriptor
C30_TextCallFailsLoad ==
    (HasObj /\ TextCarriesCall(Obj)) =>
        /\ pc \notin {"load_progs", "instances"}
        /\ LoadReturned => ret.err # "0"
        /\ \A e \in 1 .. Len(log) : log[e].ev \notin {"prog_load", "prog_probe"}
        /\ (pc = "out" /\ lerr.phase = "relocate"
                /\ IsText(Obj.programs[lerr.k], Obj)) => lerr.err = "-RELOC"
        /\ (LoadReturned /\ ret.arg[1] = "relocate"
                /\ IsText(Obj.programs[ret.arg[2]], Obj)) => ret.err = "-RELOC"
        /\ (LoadReturned /\ ret.arg[1] # "guard") => TornDown(Obj)

\* the maps were created, the patching of .text failed, all is unloaded
C30_Witness ==
    /\ HasObj /\ TextCarriesCall(Obj)
    /\ LoadReturned
    /\ ret.err = "-RELOC"
    /\ ret.arg[1] = "relocate"
    /\ \E e \in 1 .. Len(log) : log[e].ev = "map_create" /\ log[e].res >= 0
    /\ TornDown(Obj)
(* ------------------------- the list of objects ------------------------- *)
\* the addresses whose last event is an open that succeeded
OpenNow ==
    { a \in ObjAddrs :
        \E e \in 1 .. Len(log) :
            /\ log[e] = Ev("open", a, << >>, a)
            /\ \A f \in (e + 1) .. Len(log) : log[f].idx # a }

\* C31: the list holds exactly the objects opened and not yet closed, each
\* once: going through it with bpf_object__next from NULL meets each of
\* them once and no object whose open failed or that was closed
C31_ListIsOpenObjects ==
    LET w == walk_from(bpf_objects_list, 0)
    IN  /\ \A i, j \in 1 .. Len(w) : i # j => w[i] # w[j]
        /\ { w[i] : i \in 1 .. Len(w) } = OpenNow
        /\ Len(w) = Len(bpf_objects_list)

\* two objects open after an open that failed behind bpf_object__new and a
\* close, and the caller has gone through the list
C31_Witness ==
    /\ ret.op = "next"
    /\ Len(ret.arg[1]) = 2
    /\ \E e \in 1 .. Len(log) : log[e].ev = "close"
    /\ \E e \in 1 .. Len(log) :
          /\ log[e].ev = "open"
          /\ log[e].res = ERR_PTR(errno_value("FORMAT"))
(* --------------------------- program names ---------------------------- *)
\* the global symbols of section idx, by their place in the symbol table
GlobalsOf(elf, idx) ==
    { si \in 1 .. Len(elf.symtab) :
        elf.symtab[si].st_shndx = idx /\ elf.symtab[si].bind = "STB_GLOBAL" }

\* the name the claim gives the program of section sec: << >> when there is
\* neither a global symbol nor the .text section
NameByRule(elf, sec) ==
    IF GlobalsOf(elf, sec.idx) # {}
    THEN elf.symtab[CHOOSE si \in GlobalsOf(elf, sec.idx) :
                        \A sj \in GlobalsOf(elf, sec.idx) : si <= sj].name
    ELSE IF sec.section_name = ".text" THEN << ".text" >>
    ELSE << >>

\* the names were looked for
NamesReached == SweepDone /\ OpenStage \notin {"strtab", "maps"}

NamingRule ==
    /\ (Opened /\ HasObj) =>
          \A p \in 1 .. Len(Obj.programs) :
              /\ Obj.programs[p].name # << >>
              /\ Obj.programs[p].name = NameByRule(OpenElf, OpenElf.progs[p])
    /\ (NamesReached
            /\ \E p \in 1 .. Len(OpenElf.progs) :
                  /\ GlobalsOf(OpenElf, OpenElf.progs[p].idx) = {}
                  /\ OpenElf.progs[p].section_name # ".text")
          => /\ OpenStage = "names"
             /\ libbpf_get_error(OpenPtr) \in { errno_value("-EINVAL"),
                                                errno_value("-LIBELF") }

\* C32 as stated: in every opened object each program has a non-empty name,
\* that of the first global symbol of its section or .text, and open fails
\* with EINVAL if neither applies
C32_AsStated ==
    /\ NamingRule
    /\ (Opened /\ HasObj) =>
          \A p \in 1 .. Len(Obj.programs) : Obj.programs[p].name # << "" >>

\* a program named after the first global symbol of its section, a local
\* symbol of the section coming before it
NamedAfterFirstGlobal ==
    /\ Opened /\ HasObj
    /\ Len(OpenElf.symtab) > 0
    /\ OpenElf.symtab[1] = Sym(<< "loc" >>, 5, "STB_LOCAL")
    /\ Obj.programs[1].name = << "g1" >>

(* ---------------------------- section names ---------------------------- *)
\* name starts with the prefix of entry i
StartsWith(s, i) ==
    /\ Len(s) >= Len(section_names[i].sec)
    /\ SubSeq(s, 1, Len(section_names[i].sec)) = section_names[i].sec

Matching(s) == { i \in 1 .. Len(section_names) : StartsWith(s, i) }

\* C33: for every section name libbpf_prog_type_by_name returns the kind
\* and expected attach kind of the longest table prefix the name starts
\* with, which is the first matching entry in table order since no table
\* prefix is a prefix of another; a name matching no entry returns EINVAL
\* and writes neither output
C33_LongestPrefix ==
    /\ \A i, j \in 1 .. Len(section_names) :
          StartsWith(section_names[i].sec, j) => i = j
    /\ ret.op = "prog_type_by_name" =>
          LET name == ret.arg[1]
              m == IF name.null THEN {} ELSE Matching(name.s)
              longest == CHOOSE i \in m :
                             \A j \in m : section_names[i].len
                                              >= section_names[j].len
          IN  IF m # {}
              THEN /\ ret.err = "0"
                   /\ ret.arg[3].prog_type = section_names[longest].prog_type
                   /\ ret.arg[3].expected_attach_type
                          = section_names[longest].expected_attach_type
                   /\ \A j \in m : longest <= j
              ELSE /\ ret.err = "-EINVAL"
                   /\ ret.arg[3] = ret.arg[2]

\* cgroup/sock/a over variables holding something else
C33_Witness ==
    /\ ret.op = "prog_type_by_name"
    /\ ret.arg[1] = Name(<< "c", "g", "r", "o", "u", "p", "/", "s", "o", "c",
                           "k", "/", "a" >>)
    /\ ret.arg[2].prog_type = "XDP"
    /\ ret.arg[3] = [prog_type |-> "CGROUP_SOCK", expected_attach_type |-> "0"]

(* ------------------- map addresses in submitted code ------------------- *)
\* the patch events of kind k made while relocating program p
PatchesOf(k, p) ==
    { e \in 1 .. Len(log) :
        log[e].ev = "patch" /\ log[e].req[1] = k /\ log[e].req[4] = p }

\* the instruction carries the pseudo source register and the descriptor
\* of map number m
BoundTo(insn, m) ==
    /\ insn.src_reg = BPF_PSEUDO_MAP_FD
    /\ insn.imm = Obj.maps[m + 1].fd
    /\ insn.imm >= 0

\* in the program submitted by e the instructions with a map relocation,
\* its own and those of the copy of .text behind it, are bound to the map
SubmittedBound(e) ==
    LET p == log[e].idx
        insns == log[e].req[7]
        t == bpf_object__find_prog_by_idx(Obj.programs, Obj.text_shndx)
    IN  /\ \A m \in PatchesOf("map", p) :
              BoundTo(insns[log[m].idx + 1], log[m].req[3])
        /\ \A c \in PatchesOf("call", p) : \A m \in PatchesOf("map", t) :
              BoundTo(insns[log[c].req[5] + log[m].idx + 1], log[m].req[3])

\* C34 as stated: after a successful load every instruction of a submitted
\* program that comes from a map relocation carries the pseudo source
\* register and the map's descriptor, those of the copy of .text behind a
\* caller included, wherever .text stands in the program table
C34_AsStated ==
    (LoadReturned /\ ret.err = "0") =>
        \A e \in 1 .. Len(log) : log[e].ev = "prog_load" => SubmittedBound(e)

\* the same for an object whose .text comes before its callers
TextFirstBound ==
    (LoadReturned /\ ret.err = "0" /\ Obj.programs[1].idx = Obj.text_shndx) =>
        \A e \in 1 .. Len(log) : log[e].ev = "prog_load" => SubmittedBound(e)

\* a caller submitted with a bound copy of .text
TextFirstSubmitted ==
    /\ LoadReturned /\ ret.err = "0"
    /\ Obj.programs[1].idx = Obj.text_shndx
    /\ \E e \in 1 .. Len(log) :
          /\ log[e].ev = "prog_load"
          /\ Len(log[e].req[7]) = 7
          /\ log[e].req[7][5].src_reg = BPF_PSEUDO_MAP_FD

(* --------------------- the kind of a relocation ------------------------ *)
\* C35 as stated: a relocation is a map relocation only if its symbol lies
\* in the maps section and a call relocation only if its symbol lies in
\* .text; a 64-bit immediate load with a symbol of .text is never bound to
\* a map, a call with a symbol of the maps section is never a local call
C35_AsStated ==
    (Opened /\ HasObj) =>
        \A p \in 1 .. Len(Obj.programs) :
            \A i \in 1 .. Len(Obj.programs[p].reloc_desc) :
                LET d == Obj.programs[p].reloc_desc[i]
                IN  /\ d.type = "RELO_LD64" => d.st_shndx = Obj.maps_shndx
                    /\ d.type = "RELO_CALL" => d.st_shndx = Obj.text_shndx

\* an opened object with .text whose 64-bit immediate load is bound to a
\* map through a symbol of .text
LoadBoundThroughText ==
    /\ Opened /\ HasObj
    /\ Obj.text_shndx = TextShndx
    /\ \E p \in 1 .. Len(Obj.programs) :
          \E i \in 1 .. Len(Obj.programs[p].reloc_desc) :
              /\ Obj.programs[p].reloc_desc[i].type = "RELO_LD64"
              /\ Obj.programs[p].reloc_desc[i].st_shndx = TextShndx

\* an opened object whose call is a local call through a symbol of the
\* maps section
CallThroughMaps ==
    /\ Opened /\ HasObj
    /\ \E p \in 1 .. Len(Obj.programs) :
          \E i \in 1 .. Len(Obj.programs[p].reloc_desc) :
              /\ Obj.programs[p].reloc_desc[i].type = "RELO_CALL"
              /\ Obj.programs[p].reloc_desc[i].st_shndx = MapsShndx

(* ------------------------ a failed reuse_fd ---------------------------- *)
\* C36 as stated: when bpf_map__reuse_fd returns an error, the placeholder
\* it opened on "/" and the duplicate it made are closed again, so that no
\* descriptor is open that was not open before the call
C36_AsStated ==
    (ret.op = "reuse_fd" /\ ret.err # "0") =>
        \A n \in Fds :
            /\ fdtab[n].origin # "placeholder"
            /\ fdtab[n].origin = "dup" => n \in MapFds(Obj)

(* -------------------------------- pin ---------------------------------- *)
\* the object holds what a successful load leaves: a descriptor in every
\* map and in every instance of every program that is not function storage
HoldsLoad(o) ==
    /\ o.loaded
    /\ \A m \in 1 .. Len(o.maps) : o.maps[m].fd >= 0
    /\ \A q \in 1 .. Len(o.programs) :
          ~bpf_program__is_function_storage(o.programs[q], o) =>
              /\ o.programs[q].instances.nr > 0
              /\ \A i \in 1 .. o.programs[q].instances.nr :
                    o.programs[q].instances.fds[i] >= 0

\* C37 as stated: bpf_object__pin is refused with ENOENT on every object
\* that does not hold the results of a successful load; the loaded flag is
\* false after a load that returned an error and after an unload
C37_AsStated ==
    /\ LoadFailed => ~Obj.loaded
    /\ ret.op = "pin" =>
          (~HoldsLoad(ret.arg[3]) =>
              /\ ret.err = "-ENOENT"
              /\ ~ret.arg[2])

\* what the guard does give: an object on which bpf_object__load was never
\* called is refused with ENOENT before anything is made
NeverLoadedRefused ==
    ret.op = "pin" =>
        (~ret.arg[3].loaded =>
            ret.err = "-ENOENT" /\ ret.arg[1] = "guard" /\ ~ret.arg[2])

\* a pin that went on to make the directory after a load that failed
PinAfterFailedLoad ==
    /\ ret.op = "pin"
    /\ ret.arg[2]
    /\ ret.arg[3].loaded
    /\ \A m \in 1 .. Len(ret.arg[3].maps) : ret.arg[3].maps[m].fd < 0
    /\ \A q \in 1 .. Len(ret.arg[3].programs) :
          ret.arg[3].programs[q].instances.nr = -1

(* ------------------------ bpf_prog_load_xattr -------------------------- *)
XattrReturned == ret.op = "prog_load_xattr"

XattrFailed == XattrReturned /\ ret.err \notin {"0", "SIGSEGV"}

\* an error leaves no object, no descriptor of the library and untouched
\* outputs; success hands out the object and the descriptor of its first
\* program that is not function storage
XattrContract ==
    /\ XattrFailed =>
          /\ ~HasObj
          /\ \A n \in Fds : fdtab[n].origin \notin LibOrigins
          /\ ~ret.arg[2].written
    /\ (XattrReturned /\ ret.err = "0") =>
          /\ ret.arg[2].written
          /\ HasObj
          /\ ret.arg[2].pobj = ObjPtr
          /\ first_prog(Obj) # 0
          /\ ret.arg[2].prog_fd = Obj.programs[first_prog(Obj)].instances.fds[1]
          /\ ret.arg[2].prog_fd >= 0
          /\ \A q \in 1 .. first_prog(Obj) - 1 :
                bpf_program__is_function_storage(Obj.programs[q], Obj)

\* C38 as stated: whenever bpf_prog_load_xattr returns an error (open
\* failure, unguessable section name, no loadable program, load failure)
\* any object it opened has been closed and neither *pobj nor *prog_fd has
\* been written; on success *prog_fd is the descriptor of the first program
\* that is not function storage
C38_AsStated ==
    /\ XattrContract
    /\ (XattrReturned /\ ret.arg[3] # "0") => XattrFailed

\* the same for the objects whose open returns an object or an error value
ContractOnProperOpens ==
    (XattrReturned /\ ret.arg[3] # "FORMAT") =>
        /\ XattrContract
        /\ ret.arg[3] # "0" => XattrFailed

\* a successful call on an object whose first program is function storage
SecondProgramHandedOut ==
    /\ XattrReturned /\ ret.err = "0"
    /\ HasObj
    /\ first_prog(Obj) = 2

\* a call that failed in the load and closed descriptors
ClosedAfterFailedLoad ==
    /\ XattrReturned /\ ret.arg[1] = "load"
    /\ \E e \in 1 .. Len(log) : log[e].ev = "map_create" /\ log[e].res >= 0
====
